---- MODULE Spec2Model ----
(***************************************************************************)
(* Model of the bfrpg-data extraction commands.                            *)
(*                                                                         *)
(* Strings are TLA+ strings, handled character by character with Len,      *)
(* SubSeq and \o.  A Python dict is a function whose DOMAIN is its key     *)
(* set; None is the value None below.  One behaviour is one run of one      *)
(* command (prog) on one input chosen by Init.                             *)
(***************************************************************************)
EXTENDS FiniteSets, Naturals, Sequences, TLC

VARIABLES
    prog,                       \* the command that runs
    pc,                         \* its position
    doc,                        \* childNodes of the node that is scanned
    pos,                        \* index of the loop over doc / monster_headers
    nsections,                  \* len(sections) of the field guide
    monster_names_from_index,   \* MonsterExtractor.monster_names_from_index
    monster_data,               \* dict name -> processed content
    current_monster,            \* field guide: name of the open monster
    current_monster_content,    \* field guide: elements of the open monster
    monster_desc_index,         \* rules: index of the section title in headers
    monster_headers,            \* rules: headers[desc+1 : end], as positions of doc
    spells,                     \* line scan: list of pushed spells
    current_spell,              \* line scan: the open spell (a dict)
    found_spells,               \* line scan: found_spell_list / found_spells
    warnings,                   \* number of warning / error lines printed
    tree,                       \* renderer, tables, pruning: the input node
    style_map,                  \* ODTStyleParser.style_map
    input,                      \* reshaping, titles, labels: the argument of the call
    result,                     \* the value the call returns
    exit_status,                \* field guide: what main returns, None while it runs
    output,                     \* field guide: the JSON written, None when no file is
    output_monsters,            \* splitting: MonsterPostProcessor.output_monsters
    stats                       \* splitting: MonsterPostProcessor.stats

vars == << prog, pc, doc, pos, nsections, monster_names_from_index, monster_data,
           current_monster, current_monster_content, monster_desc_index,
           monster_headers, spells, current_spell, found_spells, warnings,
           tree, style_map, input, result, exit_status, output,
           output_monsters, stats >>

segVars == << doc, pos, nsections, monster_names_from_index, monster_data,
              current_monster, current_monster_content, monster_desc_index,
              monster_headers, spells, current_spell, found_spells, warnings >>

treeVars == << tree, style_map, input, result >>

inVars == << tree, style_map, input >>

mainVars == << exit_status, output >>

splitVars == << output_monsters, stats >>

\* Python's None; no string of the model is equal to it.
None == "<None>"

\* The empty dict.
EmptyDict == [k \in {} |-> None]

(***************************************************************************)
(* Bounds of the model.                                                    *)
(***************************************************************************)
\* longest childNodes list of the field guide's main section
MaxFgNodes == 3
\* longest childNodes list of the rules document's office:text
MaxRulesNodes == 3
\* longest childNodes list of the spell content node
MaxLines == 3

(***************************************************************************)
(* Strings.                                                                *)
(***************************************************************************)
CharAt(s, i) == SubSeq(s, i, i)

IsSpace(c) == c \in {" ", "\t", "\n"}

Digits == "0123456789"

IsDigit(c) == \E i \in 1..Len(Digits) : CharAt(Digits, i) = c

\* int(c) for a digit character
DigitValue(c) == (CHOOSE i \in 1..Len(Digits) : CharAt(Digits, i) = c) - 1

RECURSIVE LStrip(_)
LStrip(s) ==
    IF Len(s) > 0 /\ IsSpace(CharAt(s, 1)) THEN LStrip(SubSeq(s, 2, Len(s))) ELSE s

RECURSIVE RStrip(_)
RStrip(s) ==
    IF Len(s) > 0 /\ IsSpace(CharAt(s, Len(s)))
    THEN RStrip(SubSeq(s, 1, Len(s) - 1))
    ELSE s

\* str.strip()
Strip(s) == RStrip(LStrip(s))

\* the index of the first occurrence of sub in s, 0 when there is none
Find(s, sub) ==
    LET hits == { i \in 1..(Len(s) + 1) :
                    i + Len(sub) - 1 <= Len(s) /\ SubSeq(s, i, i + Len(sub) - 1) = sub }
    IN  IF hits = {} THEN 0 ELSE CHOOSE i \in hits : \A j \in hits : i <= j

\* s.startswith(w)
StartsWith(s, w) == Len(s) >= Len(w) /\ SubSeq(s, 1, Len(w)) = w

\* sub in s
Contains(s, sub) == Find(s, sub) # 0

\* s.split(sep): the list of the pieces between the occurrences of sep
RECURSIVE Split(_, _)
Split(s, sep) ==
    LET i == Find(s, sep)
    IN  IF i = 0 THEN << s >>
        ELSE << SubSeq(s, 1, i - 1) >> \o Split(SubSeq(s, i + Len(sep), Len(s)), sep)

\* s.replace(old, new): left to right, occurrences not overlapping
RECURSIVE Replace(_, _, _)
Replace(s, old, new) ==
    LET i == Find(s, old)
    IN  IF i = 0 THEN s
        ELSE SubSeq(s, 1, i - 1) \o new
             \o Replace(SubSeq(s, i + Len(old), Len(s)), old, new)

LowerCase == "abcdefghijklmnopqrstuvwxyz"
UpperCase == "ABCDEFGHIJKLMNOPQRSTUVWXYZ"

UpperChar(c) ==
    IF \E i \in 1..Len(LowerCase) : CharAt(LowerCase, i) = c
    THEN CharAt(UpperCase, CHOOSE i \in 1..Len(LowerCase) : CharAt(LowerCase, i) = c)
    ELSE c

\* str.upper()
RECURSIVE Upper(_)
Upper(s) == IF Len(s) = 0 THEN "" ELSE UpperChar(CharAt(s, 1)) \o Upper(SubSeq(s, 2, Len(s)))

\* the character of position i of a document, used to tell its nodes apart
PosText(i) == CharAt("123456789", i)

(***************************************************************************)
(* Document nodes of the segmenters.  A node is a child of the scanned     *)
(* node after the pruning pass: kind "text" is a text node (no tagName),   *)
(* "h" a text:h, "p" a text:p, "table" a table:table (of one cell),        *)
(* "other" any other element; text is its flattened text and level its     *)
(* text:outline-level ("" when it has none).                               *)
(***************************************************************************)
Node(k, t, l) == [kind |-> k, text |-> t, level |-> l]

\* tagName of an element node
TagName(n) ==
    CASE n.kind = "h" -> "text:h"
      [] n.kind = "p" -> "text:p"
      [] n.kind = "table" -> "table:table"
      [] OTHER -> "text:list"

\* The non-heading nodes a document may hold at position i.
BodyNodes(i) ==
    { Node("text", " ", ""),
      Node("p", "p" \o PosText(i), ""),
      Node("p", " ", ""),
      Node("table", "t" \o PosText(i), ""),
      Node("other", "o" \o PosText(i), "") }

\* all sequences of length n whose i-th item is in alphabet(i)
RECURSIVE SeqsOfLen(_, _)
SeqsOfLen(alphabet(_), n) ==
    IF n = 0 THEN { << >> }
    ELSE { Append(s, x) : s \in SeqsOfLen(alphabet, n - 1), x \in alphabet(n) }

SeqsUpTo(alphabet(_), n) == UNION { SeqsOfLen(alphabet, k) : k \in 0..n }

(***************************************************************************)
(* _process_monster_content of both monster extractors.  _element_to_html  *)
(* of an unstyled node is its flattened text; _table_to_html of a table    *)
(* of one cell keeps its row unless the trimmed cell is empty.             *)
(***************************************************************************)
\* _table_to_html returns None: no row of the table survives
TableAbsent(n) == Strip(n.text) = ""

TableOfNode(n) == [type |-> "table", rows |-> << << Strip(n.text) >> >>]

RECURSIVE ProcessMonsterContent(_)
ProcessMonsterContent(elements) ==
    IF elements = << >>
    THEN [description_paragraphs |-> << >>, tables |-> << >>, other_elements |-> << >>]
    ELSE LET n == elements[Len(elements)]
             c == ProcessMonsterContent(SubSeq(elements, 1, Len(elements) - 1))
         IN  CASE n.kind = "text" -> c
               [] n.kind = "p" ->
                    IF Strip(n.text) # ""
                    THEN [c EXCEPT !.description_paragraphs = Append(@, n.text)]
                    ELSE c
               [] n.kind = "table" ->
                    IF ~TableAbsent(n)
                    THEN [c EXCEPT !.tables = Append(@, TableOfNode(n))]
                    ELSE c
               [] OTHER ->
                    IF Strip(n.text) # ""
                    THEN [c EXCEPT !.other_elements =
                                      Append(@, [type |-> TagName(n), html |-> n.text])]
                    ELSE c

\* d[k] = v of a Python dict
DictSet(d, k, v) == (k :> v) @@ d

(***************************************************************************)
(* Field guide: MonsterExtractor.                                          *)
(***************************************************************************)
\* MonsterExtractor.known_fixes
KnownFixes ==
    ("Badger (andBadger, Giant)" :> "Badger (and Badger, Giant)")
    @@ ("CowDragon" :> "Cow Dragon")
    @@ ("Deer, Huge (MegalocerosorIrish Deer)" :> "Deer, Huge (Megaloceros or Irish Deer)")
    @@ ("Eel, Common, Electric, Weed, &Giant" :> "Eel, Common, Electric, Weed, & Giant")
    @@ ("GreatOrb ofEyes" :> "Great Orb of Eyes")
    @@ ("Infernal, DreadHorseman" :> "Infernal, Dread Horseman")
    @@ ("Ear Worms" :> "Ear Worms")

\* _postprocess_title
PostprocessTitle(title) == Replace(Replace(Replace(title, ",", ", "), "(", " ("), "  ", " ")

\* the title after post-processing and known fixes, for a non-empty title
FixedTitle(text) ==
    LET t == PostprocessTitle(text)
    IN  IF t \in DOMAIN KnownFixes THEN KnownFixes[t] ELSE t

\* _extract_monster_name_from_header: the name, or None
ExtractMonsterNameFromHeader(header, index) ==
    LET text == Strip(header.text)
    IN  IF text = "" THEN None
        ELSE IF index # {} /\ FixedTitle(text) \notin index
                /\ FixedTitle(text) = "Monster Index"
             THEN None
             ELSE FixedTitle(text)

\* whether _extract_monster_name_from_header prints its warning
HeaderWarns(header, index) ==
    LET text == Strip(header.text)
    IN  /\ text # ""
        /\ index # {}
        /\ FixedTitle(text) \notin index
        /\ FixedTitle(text) # "Monster Index"

\* The headings a field guide section may hold.
FgHeaderTexts == { " ", "Ant", "Bee,Giant", "Monster Index" }

FgNodes(i) == BodyNodes(i) \cup { Node("h", t, "") : t \in FgHeaderTexts }

\* The names the index section lists when it can be read.
IndexNames == { "Ant" }

\* _extract_monster_index
ExtractMonsterIndex ==
    /\ prog = "fieldguide" /\ pc = "index"
    /\ monster_names_from_index' = IF nsections < 3 THEN {} ELSE IndexNames
    /\ warnings' = IF nsections < 3 THEN warnings + 1 ELSE warnings
    /\ pc' = "data"
    /\ UNCHANGED << prog, doc, pos, nsections, monster_data, current_monster,
                    current_monster_content, monster_desc_index, monster_headers,
                    spells, current_spell, found_spells, treeVars, mainVars, splitVars >>

\* the section check of _extract_monster_data made as the one of the index is
TooFewSectionsAsIndex == nsections < 3

\* len(sections) < 2
TooFewSections == nsections < 2

\* _extract_monster_data up to its loop: the section check; its ValueError is
\* caught by main, which returns 1 before it opens the output
FgBegin ==
    /\ prog = "fieldguide" /\ pc = "data"
    /\ IF TooFewSections
       THEN /\ pc' = "error"
            /\ exit_status' = 1
            /\ UNCHANGED << monster_data, current_monster, current_monster_content, pos >>
       ELSE /\ pc' = "scan"
            /\ monster_data' = EmptyDict
            /\ current_monster' = None
            /\ current_monster_content' = << >>
            /\ pos' = 1
            /\ UNCHANGED exit_status
    /\ UNCHANGED << prog, doc, nsections, monster_names_from_index, monster_desc_index,
                    monster_headers, spells, current_spell, found_spells, warnings,
                    treeVars, output, splitVars >>

\* the body of the loop over main_section.childNodes, for the element at pos
FgLoopBody(element) ==
    IF element.kind = "text"
    THEN UNCHANGED << monster_data, current_monster, current_monster_content, warnings >>
    ELSE IF element.kind = "h"
    THEN LET monster_name == ExtractMonsterNameFromHeader(element, monster_names_from_index)
         IN  /\ monster_data' =
                    IF current_monster # None
                    THEN DictSet(monster_data, current_monster,
                                 ProcessMonsterContent(current_monster_content))
                    ELSE monster_data
             /\ warnings' = IF HeaderWarns(element, monster_names_from_index)
                            THEN warnings + 1 ELSE warnings
             /\ IF monster_name # None
                THEN /\ current_monster' = monster_name
                     /\ current_monster_content' = << >>
                ELSE UNCHANGED << current_monster, current_monster_content >>
    ELSE /\ current_monster_content' =
                IF current_monster # None
                THEN Append(current_monster_content, element)
                ELSE current_monster_content
         /\ UNCHANGED << monster_data, current_monster, warnings >>

FgStep ==
    /\ prog = "fieldguide" /\ pc = "scan"
    /\ pos <= Len(doc)
    /\ FgLoopBody(doc[pos])
    /\ pos' = pos + 1
    /\ UNCHANGED << prog, pc, doc, nsections, monster_names_from_index,
                    monster_desc_index, monster_headers, spells, current_spell,
                    found_spells, treeVars, mainVars, splitVars >>

\* FgFlushLast without its store: the scan ends and the open monster is lost
FgFlushLastDropped == UNCHANGED monster_data

\* the statement after the loop: the last monster
FgFlushLast ==
    IF current_monster # None
    THEN monster_data' = DictSet(monster_data, current_monster,
                                 ProcessMonsterContent(current_monster_content))
    ELSE UNCHANGED monster_data

\* the end of the loop, and main after extract_monsters has returned: the map
\* is written and main returns 0
FgFinish ==
    /\ prog = "fieldguide" /\ pc = "scan"
    /\ pos > Len(doc)
    /\ FgFlushLast
    /\ pc' = "done"
    /\ output' = monster_data'
    /\ exit_status' = 0
    /\ UNCHANGED << prog, doc, pos, nsections, monster_names_from_index,
                    current_monster, current_monster_content, monster_desc_index,
                    monster_headers, spells, current_spell, found_spells, warnings,
                    treeVars, splitVars >>

\* the values of the variables a command does not use
IdleMain == exit_status = None /\ output = None

IdleSplit == output_monsters = EmptyDict /\ stats = EmptyDict

IdleTree == tree = None /\ style_map = EmptyDict /\ input = None /\ result = None

IdleSeg ==
    /\ doc = << >> /\ pos = 0 /\ nsections = 0
    /\ monster_names_from_index = {}
    /\ monster_data = EmptyDict /\ current_monster = None
    /\ current_monster_content = << >>
    /\ monster_desc_index = 0 /\ monster_headers = << >>
    /\ spells = << >> /\ current_spell = EmptyDict /\ found_spells = FALSE
    /\ warnings = 0

InitFieldGuide ==
    /\ prog = "fieldguide" /\ pc = "index"
    /\ nsections \in 1..3
    /\ doc \in IF nsections < 2 THEN { << >> } ELSE SeqsUpTo(FgNodes, MaxFgNodes)
    /\ pos = 0
    /\ monster_names_from_index = {}
    /\ monster_data = EmptyDict /\ current_monster = None
    /\ current_monster_content = << >>
    /\ monster_desc_index = 0 /\ monster_headers = << >>
    /\ spells = << >> /\ current_spell = EmptyDict /\ found_spells = FALSE
    /\ warnings = 0
    /\ IdleTree
    /\ IdleMain
    /\ IdleSplit

(***************************************************************************)
(* Rules book: RulesMonsterExtractor.  doc is the childNodes of            *)
(* office:text, all the headings being children of it.                     *)
(***************************************************************************)
\* The headings a rules document may hold: (flattened text, outline level).
RulesHeaders ==
    { Node("h", "Monster Descriptions", "2"),
      Node("h", "Monster Descriptions", "1"),
      Node("h", "Part 7", "1"),
      Node("h", "Part 7", "2"),
      Node("h", "Ant", "3"),
      Node("h", "Bee ", "3"),
      Node("h", " ", "3") }

RulesNodes(i) ==
    RulesHeaders \cup { Node("p", "p" \o PosText(i), ""), Node("table", "t" \o PosText(i), "") }

\* text_element.getElementsByTagName("text:h"): the positions of the headings
Headers(d) == { i \in 1..Len(d) : d[i].kind = "h" }

\* the k-th heading (k from 1), as a position of doc
RECURSIVE NthHeader(_, _)
NthHeader(d, k) ==
    LET first == CHOOSE i \in Headers(d) : \A j \in Headers(d) : i <= j
    IN  IF k = 1 THEN first
        ELSE first + NthHeader(SubSeq(d, first + 1, Len(d)), k - 1)

\* the positions of the headings, in document order
HeaderList(d) == [k \in 1..Cardinality(Headers(d)) |-> NthHeader(d, k)]

\* _extract_monster_name_from_header of the rules extractor
RulesNameFromHeader(header) ==
    IF Strip(header.text) # "" THEN Strip(header.text) ELSE None

\* the first loop: the headings that open the section
IsSectionTitle(header) ==
    Strip(header.text) = "Monster Descriptions" /\ header.level = "2"

\* the second loop: the headings that end the section
IsSectionEnd(header) ==
    header.level = "1" /\ Contains(Upper(Strip(header.text)), "PART")

RulesFindSection ==
    /\ prog = "rules" /\ pc = "find"
    /\ LET headers == HeaderList(doc)
           hits == { k \in 1..Len(headers) : IsSectionTitle(doc[headers[k]]) }
       IN  IF hits = {}
           THEN pc' = "error" /\ UNCHANGED monster_desc_index
           ELSE /\ pc' = "end"
                /\ monster_desc_index' = CHOOSE k \in hits : \A j \in hits : k <= j
    /\ UNCHANGED << prog, doc, pos, nsections, monster_names_from_index, monster_data,
                    current_monster, current_monster_content, monster_headers,
                    spells, current_spell, found_spells, warnings, treeVars, mainVars, splitVars >>

\* monsters_end_index: the index in headers of the end, Len(headers) + 1 when none
MonstersEndIndex(d, desc) ==
    LET headers == HeaderList(d)
        hits == { k \in (desc + 1)..Len(headers) : IsSectionEnd(d[headers[k]]) }
    IN  IF hits = {} THEN Len(headers) + 1
        ELSE CHOOSE k \in hits : \A j \in hits : k <= j

RulesFindEnd ==
    /\ prog = "rules" /\ pc = "end"
    /\ LET headers == HeaderList(doc)
           end == MonstersEndIndex(doc, monster_desc_index)
       IN  /\ monster_headers' = SubSeq(headers, monster_desc_index + 1, end - 1)
           /\ warnings' = IF end > Len(headers) THEN warnings + 1 ELSE warnings
    /\ monster_data' = EmptyDict
    /\ pos' = 1
    /\ pc' = "scan"
    /\ UNCHANGED << prog, doc, nsections, monster_names_from_index, current_monster,
                    current_monster_content, monster_desc_index, spells, current_spell,
                    found_spells, treeVars, mainVars, splitVars >>

\* _get_monster_content: the element siblings after the header, up to the next
\* monster header (a position of doc) or, when next is 0 (None), to the last sibling
RECURSIVE SiblingsFrom(_, _, _)
SiblingsFrom(d, current, next) ==
    IF current > Len(d) \/ current = next THEN << >>
    ELSE (IF d[current].kind # "text" THEN << d[current] >> ELSE << >>)
         \o SiblingsFrom(d, current + 1, next)

GetMonsterContent(d, monster_header, next_monster_header) ==
    SiblingsFrom(d, monster_header + 1, next_monster_header)

\* the body of the loop over monster_headers
RulesLoopBody(i) ==
    LET monster_header == monster_headers[i]
        monster_name == RulesNameFromHeader(doc[monster_header])
        next_monster_header ==
            IF i + 1 <= Len(monster_headers) THEN monster_headers[i + 1] ELSE 0
    IN  IF monster_name = None
        THEN warnings' = warnings + 1 /\ UNCHANGED monster_data
        ELSE /\ monster_data' =
                    DictSet(monster_data, monster_name,
                            ProcessMonsterContent(
                                GetMonsterContent(doc, monster_header, next_monster_header)))
             /\ UNCHANGED warnings

RulesStep ==
    /\ prog = "rules" /\ pc = "scan"
    /\ pos <= Len(monster_headers)
    /\ RulesLoopBody(pos)
    /\ pos' = pos + 1
    /\ UNCHANGED << prog, pc, doc, nsections, monster_names_from_index, current_monster,
                    current_monster_content, monster_desc_index, monster_headers,
                    spells, current_spell, found_spells, treeVars, mainVars, splitVars >>

RulesFinish ==
    /\ prog = "rules" /\ pc = "scan"
    /\ pos > Len(monster_headers)
    /\ pc' = "done"
    /\ UNCHANGED << prog, segVars, treeVars, mainVars, splitVars >>

InitRules ==
    /\ prog = "rules" /\ pc = "find"
    /\ doc \in SeqsUpTo(RulesNodes, MaxRulesNodes)
    /\ pos = 0 /\ nsections = 0
    /\ monster_names_from_index = {}
    /\ monster_data = EmptyDict /\ current_monster = None
    /\ current_monster_content = << >>
    /\ monster_desc_index = 0 /\ monster_headers = << >>
    /\ spells = << >> /\ current_spell = EmptyDict /\ found_spells = FALSE
    /\ warnings = 0
    /\ IdleTree
    /\ IdleMain
    /\ IdleSplit

(***************************************************************************)
(* Spell supplements: the line scan of extract_supplement_spells.main      *)
(* (prog "supplement") and extract_necromancer_spells.main (prog           *)
(* "necromancer").  doc is the childNodes of the spell root / content      *)
(* node; a line is a child with its nodeName and the list                  *)
(* get_recursive_text gives for it.                                        *)
(***************************************************************************)
Line(k, p) == [kind |-> k, parts |-> p]

SpellTitle == "DESCRIPTION OF NEW SPELLS"

\* known_exceptions
KnownExceptions == { "Protection from Undead*", "Protection from Undead 10' Radius*" }

\* The lines a spell node may hold at position i.
ScanLines(i) ==
    { Line("text:p", << SpellTitle >>),
      Line("text:p", << "Protection from Undead*" >>),
      Line("text:p", << "Bane", " Range: 10" >>),
      Line("text:p", << "Range: 5" >>),
      Line("text:p", << "Necromancer 2 Duration: 1" >>),
      Line("text:p", << "d" \o PosText(i) >>),
      Line("table:table", << "t" \o PosText(i) >>),
      Line("text:p", << >>) }

\* concat_text_parts with the default separator
RECURSIVE ConcatTextParts(_)
ConcatTextParts(parts) ==
    IF parts = << >> THEN "" ELSE Head(parts) \o ConcatTextParts(Tail(parts))

IsLetter(c) ==
    \E i \in 1..Len(LowerCase) : CharAt(LowerCase, i) = c \/ CharAt(UpperCase, i) = c

\* the character class [-\w\s]
IsClassChar(c) == c = "-" \/ c = "_" \/ IsLetter(c) \/ IsDigit(c) \/ IsSpace(c)

\* the length of the longest prefix of s made of characters of [-\w\s]
RECURSIVE ClassRun(_)
ClassRun(s) ==
    IF Len(s) > 0 /\ IsClassChar(CharAt(s, 1)) THEN 1 + ClassRun(SubSeq(s, 2, Len(s))) ELSE 0

\* re.match(r"([-\w\s]+)(\d)", part): the position of group 2, 0 when no match
\* (the greedy group 1 gives back characters down to the last digit of the run)
ClassLevelMatch(part) ==
    LET ds == { i \in 2..ClassRun(part) : IsDigit(CharAt(part, i)) }
    IN  IF ds = {} THEN 0 ELSE CHOOSE i \in ds : \A j \in ds : j <= i

\* identify_part of extract_supplement_spells: the dict to merge
IdentifyPartSupplement(part) ==
    LET m == ClassLevelMatch(part)
    IN  IF m # 0
        THEN ("level" :> DigitValue(CharAt(part, m)))
             @@ ("class" :> Strip(SubSeq(part, 1, m - 1)))
        ELSE IF Strip(part) # "" THEN ("name" :> Strip(part))
        ELSE EmptyDict

\* re.match(r"Necromancer\s*(\d)", part): the position of the digit, 0 when no match
NecromancerMatch(part) ==
    LET w == "Necromancer"
        rest == LStrip(SubSeq(part, Len(w) + 1, Len(part)))
    IN  IF StartsWith(part, w) /\ Len(rest) > 0 /\ IsDigit(CharAt(rest, 1))
        THEN Len(part) - Len(rest) + 1
        ELSE 0

\* identify_part of extract_necromancer_spells, as the dict to merge
IdentifyPartNecromancer(part) ==
    LET m == NecromancerMatch(part)
    IN  IF m # 0 THEN ("level" :> DigitValue(CharAt(part, m)))
        ELSE IF Strip(part) # "" THEN ("name" :> Strip(part))
        ELSE EmptyDict

IdentifyPart(p, part) ==
    IF p = "supplement" THEN IdentifyPartSupplement(part) ELSE IdentifyPartNecromancer(part)

\* the second item of a split, which exists when the separator occurs
SplitField(text, marker) == Strip(Split(text, marker)[2])

\* the item a descriptive line adds to the description
DescItem(p, line) ==
    IF p = "supplement" /\ line.kind = "table:table"
    THEN "<table><tr><th>" \o Strip(ConcatTextParts(line.parts)) \o "</th></tr></table>"
    ELSE "<p>" \o ConcatTextParts(line.parts) \o "</p>"

\* the line is the section title, as each command tests it
IsTitleLine(p, line) ==
    IF p = "supplement" THEN ConcatTextParts(line.parts) = SpellTitle
    ELSE line.parts[1] = SpellTitle

\* spells after the push a line that opens a spell may do
PushOpen(cond) == IF cond THEN Append(spells, current_spell) ELSE spells

\* the open spell after that push
AfterPush(cond) == IF cond THEN EmptyDict ELSE current_spell

\* the description branch of the loop body
AppendDescription(spell, item) ==
    DictSet(spell, "description",
            Append(IF "description" \in DOMAIN spell THEN spell.description ELSE << >>,
                   item))

\* the body of the loop over the lines, once the line is known to have a first part
ScanLoopBody(line) ==
    LET child_text == ConcatTextParts(line.parts)
    IN  IF IsTitleLine(prog, line)
        THEN found_spells' = TRUE /\ UNCHANGED << spells, current_spell >>
        ELSE IF ~found_spells
        THEN UNCHANGED << spells, current_spell, found_spells >>
        ELSE /\ UNCHANGED found_spells
             /\ IF child_text \in KnownExceptions
                THEN LET push == current_spell # EmptyDict
                     IN  /\ spells' = PushOpen(push)
                         /\ current_spell' = DictSet(AfterPush(push), "name", child_text)
                ELSE IF Contains(child_text, "Range:")
                THEN LET push == current_spell # EmptyDict
                                 /\ "range" \in DOMAIN current_spell
                     IN  /\ spells' = PushOpen(push)
                         /\ current_spell' =
                                IdentifyPart(prog, Split(child_text, "Range:")[1])
                                @@ DictSet(AfterPush(push), "range",
                                           SplitField(child_text, "Range:"))
                ELSE IF Contains(child_text, "Duration:")
                THEN /\ spells' = spells
                     /\ current_spell' =
                            IdentifyPart(prog, Split(child_text, "Duration:")[1])
                            @@ DictSet(current_spell, "duration",
                                       SplitField(child_text, "Duration:"))
                ELSE /\ spells' = spells
                     /\ current_spell' =
                            AppendDescription(current_spell, DescItem(prog, line))

\* the supplement looks for the node that holds the spells; exit() without it
ScanBegin ==
    /\ prog \in {"supplement", "necromancer"} /\ pc = "locate"
    /\ IF prog = "supplement"
          /\ ~\E i \in 1..Len(doc) : Contains(ConcatTextParts(doc[i].parts), SpellTitle)
       THEN pc' = "error" /\ warnings' = warnings + 1 /\ UNCHANGED pos
       ELSE pc' = "scan" /\ pos' = 1 /\ UNCHANGED warnings
    /\ UNCHANGED << prog, doc, nsections, monster_names_from_index, monster_data,
                    current_monster, current_monster_content, monster_desc_index,
                    monster_headers, spells, current_spell, found_spells, treeVars, mainVars, splitVars >>

\* child_text_parts[0] of a child without text raises IndexError
RaisesIndexError(p, line) == p = "necromancer" /\ line.parts = << >>

ScanStep ==
    /\ prog \in {"supplement", "necromancer"} /\ pc = "scan"
    /\ pos <= Len(doc)
    /\ IF RaisesIndexError(prog, doc[pos])
       THEN pc' = "error" /\ UNCHANGED << pos, spells, current_spell, found_spells >>
       ELSE ScanLoopBody(doc[pos]) /\ pos' = pos + 1 /\ UNCHANGED pc
    /\ UNCHANGED << prog, doc, nsections, monster_names_from_index, monster_data,
                    current_monster, current_monster_content, monster_desc_index,
                    monster_headers, warnings, treeVars, mainVars, splitVars >>

\* the statement after the loop
ScanFlushLast == Append(spells, current_spell)

\* the keys the final check wants in each spell
WantedKeys(p) ==
    IF p = "supplement" THEN {"name", "range", "duration", "level", "description", "class"}
    ELSE {"name", "range", "duration", "level", "description"}

RECURSIVE MissingKeys(_, _)
MissingKeys(p, list) ==
    IF list = << >> THEN 0
    ELSE Cardinality(WantedKeys(p) \ DOMAIN Head(list)) + MissingKeys(p, Tail(list))

ScanFinish ==
    /\ prog \in {"supplement", "necromancer"} /\ pc = "scan"
    /\ pos > Len(doc)
    /\ spells' = ScanFlushLast
    /\ warnings' = warnings + MissingKeys(prog, ScanFlushLast)
    /\ pc' = "done"
    /\ UNCHANGED << prog, doc, pos, nsections, monster_names_from_index, monster_data,
                    current_monster, current_monster_content, monster_desc_index,
                    monster_headers, current_spell, found_spells, treeVars, mainVars, splitVars >>

InitScan ==
    /\ prog \in {"supplement", "necromancer"} /\ pc = "locate"
    /\ doc \in SeqsUpTo(ScanLines, MaxLines)
    /\ pos = 0 /\ nsections = 0
    /\ monster_names_from_index = {}
    /\ monster_data = EmptyDict /\ current_monster = None
    /\ current_monster_content = << >>
    /\ monster_desc_index = 0 /\ monster_headers = << >>
    /\ spells = << >> /\ current_spell = EmptyDict /\ found_spells = FALSE
    /\ warnings = 0
    /\ IdleTree
    /\ IdleMain
    /\ IdleSplit

InitSeg == InitFieldGuide \/ InitRules \/ InitScan

NextSeg ==
    \/ ExtractMonsterIndex \/ FgBegin \/ FgStep \/ FgFinish
    \/ RulesFindSection \/ RulesFindEnd \/ RulesStep \/ RulesFinish
    \/ ScanBegin \/ ScanStep \/ ScanFinish

SpecSeg == InitSeg /\ [][NextSeg]_vars

(***************************************************************************)
(* Node trees of the renderer.  A text node is [kind, data]; an element    *)
(* is [kind, tag, attrs, kids], attrs a dict of its attributes.            *)
(***************************************************************************)
TextNode(d) == [kind |-> "text", data |-> d]

Element(t, a, k) == [kind |-> "elem", tag |-> t, attrs |-> a, kids |-> k]

\* element.getAttribute(name): "" when the element has no such attribute
GetAttribute(element, name) ==
    IF name \in DOMAIN element.attrs THEN element.attrs[name] ELSE ""

\* most nodes a tree of the renderer may have
MaxTreeNodes == 4

\* The text nodes and the attribute dicts of the elements of a rendered tree.
RenderLeaves == { TextNode("x"), TextNode("y") }

RenderAttrs == { EmptyDict, "text:style-name" :> "S", "text:style-name" :> "T" }

\* the trees of exactly n nodes, and the lists of trees of n nodes in all
RECURSIVE TreesOfSize(_, _, _), ForestsOfSize(_, _, _)
TreesOfSize(leaves, attrs, n) ==
    (IF n = 1 THEN leaves ELSE {})
    \cup { Element("text:span", a, k) : a \in attrs, k \in ForestsOfSize(leaves, attrs, n - 1) }

ForestsOfSize(leaves, attrs, n) ==
    IF n = 0 THEN { << >> }
    ELSE UNION { { << t >> \o f : t \in TreesOfSize(leaves, attrs, j),
                                  f \in ForestsOfSize(leaves, attrs, n - j) } : j \in 1..n }

TreesUpTo(leaves, attrs, n) == UNION { TreesOfSize(leaves, attrs, k) : k \in 1..n }

\* The style tables parse_styles may have built: per style, its properties.
StyleTables ==
    { ("S" :> [bold |-> TRUE]) @@ ("T" :> [italic |-> TRUE]),
      ("S" :> [bold |-> TRUE, italic |-> TRUE]) @@ ("T" :> [font_family |-> "Arial"]),
      ("S" :> [italic |-> TRUE, font_size |-> "10pt"]) }

\* properties.get(key), for the flags, which are True when present
PropertyGet(properties, key) == key \in DOMAIN properties

\* ''.join(f'<{tag}>' for tag in tags)
RECURSIVE OpeningOf(_)
OpeningOf(tags) ==
    IF tags = << >> THEN "" ELSE "<" \o Head(tags) \o ">" \o OpeningOf(Tail(tags))

\* ''.join(f'</{tag}>' for tag in reversed(tags))
RECURSIVE ClosingOf(_)
ClosingOf(tags) ==
    IF tags = << >> THEN "" ELSE ClosingOf(Tail(tags)) \o "</" \o Head(tags) \o ">"

\* the closing tags in the order of the opening ones
RECURSIVE ClosingUnreversed(_)
ClosingUnreversed(tags) ==
    IF tags = << >> THEN "" ELSE "</" \o Head(tags) \o ">" \o ClosingUnreversed(Tail(tags))

\* the list tags of get_html_tags
TagsOfProperties(properties) ==
    (IF PropertyGet(properties, "bold") THEN << "strong" >> ELSE << >>)
    \o (IF PropertyGet(properties, "italic") THEN << "em" >> ELSE << >>)

\* get_html_tags with the tag list wrapped as one tag: "<>" for a style without flags
GetHtmlTagsOneTag(style_name, smap) ==
    IF style_name \notin DOMAIN smap THEN << "", "" >>
    ELSE << "<" \o OpeningOf(TagsOfProperties(smap[style_name])) \o ">",
            ClosingOf(TagsOfProperties(smap[style_name])) >>

\* get_html_tags closing in the order it opens
GetHtmlTagsUnreversed(style_name, smap) ==
    IF style_name \notin DOMAIN smap THEN << "", "" >>
    ELSE << OpeningOf(TagsOfProperties(smap[style_name])),
            ClosingUnreversed(TagsOfProperties(smap[style_name])) >>

\* ODTStyleParser.get_html_tags: << opening, closing >>
GetHtmlTags(style_name, smap) ==
    IF style_name \notin DOMAIN smap THEN << "", "" >>
    ELSE << OpeningOf(TagsOfProperties(smap[style_name])),
            ClosingOf(TagsOfProperties(smap[style_name])) >>

\* element_to_html and the _element_to_html of both monster extractors
RECURSIVE ElementToHtml(_, _), ChildrenToHtml(_, _)
ElementToHtml(element, smap) ==
    IF element.kind = "text" THEN element.data
    ELSE IF element.kind # "elem" THEN ""
    ELSE LET tags == GetHtmlTags(GetAttribute(element, "text:style-name"), smap)
             content == ChildrenToHtml(element.kids, smap)
         IN  IF tags[1] # "" THEN tags[1] \o content \o tags[2] ELSE content

\* the join of the renderings of the children
ChildrenToHtml(kids, smap) ==
    IF kids = << >> THEN ""
    ELSE ElementToHtml(Head(kids), smap) \o ChildrenToHtml(Tail(kids), smap)

\* one call of the renderer on the node of the run
Render ==
    /\ prog = "render" /\ pc = "call"
    /\ result' = ElementToHtml(tree, style_map)
    /\ pc' = "done"
    /\ UNCHANGED << prog, segVars, inVars, mainVars, splitVars >>

InitRender ==
    /\ prog = "render" /\ pc = "call"
    /\ tree \in TreesUpTo(RenderLeaves, RenderAttrs, MaxTreeNodes)
    /\ style_map \in StyleTables
    /\ input = None
    /\ result = None
    /\ IdleSeg
    /\ IdleMain
    /\ IdleSplit

SpecRender == InitRender /\ [][Render]_vars

(***************************************************************************)
(* The table renderers.  A table is an element whose children are its      *)
(* rows, a row an element whose children are its cells.                    *)
(***************************************************************************)
\* most cells a table may have in all
MaxTableCells == 3

\* The contents a cell may have: nothing, blanks, a text to trim, a styled text.
CellKids ==
    { << >>,
      << TextNode(" ") >>,
      << TextNode(" Move ") >>,
      << Element("text:p", "text:style-name" :> "S", << TextNode("hp 7") >>) >> }

Cells == { Element("table:table-cell", EmptyDict, k) : k \in CellKids }

\* the rows of exactly n cells
RECURSIVE RowsOfCells(_)
RowsOfCells(n) ==
    IF n = 0 THEN { << >> }
    ELSE { << c >> \o r : c \in Cells, r \in RowsOfCells(n - 1) }

\* the lists of rows of n cells in all, no row without a cell
RECURSIVE RowListsOfCells(_)
RowListsOfCells(n) ==
    IF n = 0 THEN { << >> }
    ELSE UNION { { << Element("table:table-row", EmptyDict, r) >> \o t :
                       r \in RowsOfCells(j), t \in RowListsOfCells(n - j) } : j \in 1..n }

Tables ==
    { Element("table:table", EmptyDict, rows) :
          rows \in UNION { RowListsOfCells(n) : n \in 0..MaxTableCells } }

LowerChar(c) ==
    IF \E i \in 1..Len(UpperCase) : CharAt(UpperCase, i) = c
    THEN CharAt(LowerCase, CHOOSE i \in 1..Len(UpperCase) : CharAt(UpperCase, i) = c)
    ELSE c

\* str.lower()
RECURSIVE Lower(_)
Lower(s) == IF Len(s) = 0 THEN "" ELSE LowerChar(CharAt(s, 1)) \o Lower(SubSeq(s, 2, Len(s)))

\* sep.join(parts)
RECURSIVE Join(_, _)
Join(parts, sep) ==
    IF parts = << >> THEN ""
    ELSE IF Len(parts) = 1 THEN parts[1]
    ELSE parts[1] \o sep \o Join(Tail(parts), sep)

\* re.search(r'\d+', s)
HasDigit(s) == \E i \in 1..Len(s) : IsDigit(CharAt(s, i))

\* row_data of one row: each cell rendered and stripped
RowData(row, smap) ==
    [ c \in 1..Len(row.kids) |-> Strip(ElementToHtml(row.kids[c], smap)) ]

\* any(cell.strip() for cell in row_data)
AnyCell(row_data) == \E c \in 1..Len(row_data) : Strip(row_data[c]) # ""

\* table_data: the row_data of the rows that have a cell with text, in order
RECURSIVE TableData(_, _)
TableData(rows, smap) ==
    IF rows = << >> THEN << >>
    ELSE LET table_data == TableData(SubSeq(rows, 1, Len(rows) - 1), smap)
             row_data == RowData(rows[Len(rows)], smap)
         IN  IF AnyCell(row_data) THEN Append(table_data, row_data) ELSE table_data

\* MonsterExtractor._looks_like_header_row
LooksLikeHeaderRow(row) ==
    LET short_cells == Cardinality({ c \in 1..Len(row) : Len(Strip(row[c])) < 15 })
        numeric_cells == Cardinality({ c \in 1..Len(row) : HasDigit(row[c]) })
    IN  /\ row # << >>
        /\ 10 * short_cells >= 7 * Len(row)
        /\ 2 * numeric_cells < Len(row)

\* stat_headers
StatHeaders ==
    { "ac", "armor class", "hd", "hit dice", "hp", "hit points", "move", "movement",
      "attacks", "damage", "no. appearing", "save as", "morale", "treasure type", "xp" }

\* RulesMonsterExtractor._is_stat_header_row
IsStatHeaderRow(row) ==
    LET row_text == Join([ c \in 1..Len(row) |-> Strip(Lower(row[c])) ], " ")
        header_matches == Cardinality({ header \in StatHeaders : Contains(row_text, header) })
    IN  row # << >> /\ header_matches >= 2

\* the cells of one row between cell tags
RECURSIVE CellsHtml(_, _)
CellsHtml(row, cell_tag) ==
    IF row = << >> THEN ""
    ELSE "<" \o cell_tag \o ">" \o Head(row) \o "</" \o cell_tag \o ">"
         \o CellsHtml(Tail(row), cell_tag)

\* the rows from the i-th on, the first with header cells when header says so
RECURSIVE RowsHtml(_, _, _)
RowsHtml(table_data, i, header) ==
    IF i > Len(table_data) THEN ""
    ELSE "<tr>" \o CellsHtml(table_data[i], IF i = 1 /\ header THEN "th" ELSE "td")
         \o "</tr>" \o RowsHtml(table_data, i + 1, header)

\* MonsterExtractor._table_data_to_html_table
FgTableDataToHtmlTable(table_data) ==
    IF table_data = << >> THEN ""
    ELSE "<table>" \o RowsHtml(table_data, 1, LooksLikeHeaderRow(table_data[1])) \o "</table>"

\* RulesMonsterExtractor._table_data_to_html_table
RulesTableDataToHtmlTable(table_data) ==
    IF table_data = << >> THEN ""
    ELSE "<table>" \o RowsHtml(table_data, 1, IsStatHeaderRow(table_data[1])) \o "</table>"

\* what a monster table renderer returns for None
NoTable == [type |-> "None", rows |-> << >>, html |-> ""]

\* MonsterExtractor._table_to_html
FgTableToHtml(table_element, smap) ==
    LET table_data == TableData(table_element.kids, smap)
    IN  IF table_element.kids = << >> \/ table_data = << >> THEN NoTable
        ELSE [type |-> "table", rows |-> table_data,
              html |-> FgTableDataToHtmlTable(table_data)]

\* RulesMonsterExtractor._table_to_html
RulesTableToHtml(table_element, smap) ==
    LET table_data == TableData(table_element.kids, smap)
    IN  IF table_element.kids = << >> \/ table_data = << >> THEN NoTable
        ELSE [type |-> "table", rows |-> table_data,
              html |-> RulesTableDataToHtmlTable(table_data)]

\* convert_table_to_html
ConvertTableToHtml(node, smap) ==
    LET table_data == TableData(node.kids, smap)
    IN  IF node.kids = << >> THEN ""
        ELSE "<table>" \o RowsHtml(table_data, 1, TRUE) \o "</table>"

\* one call of each table renderer on the table of the run
FgTable ==
    /\ prog = "fieldguide_table" /\ pc = "call"
    /\ result' = FgTableToHtml(tree, style_map)
    /\ pc' = "done"
    /\ UNCHANGED << prog, segVars, inVars, mainVars, splitVars >>

RulesTable ==
    /\ prog = "rules_table" /\ pc = "call"
    /\ result' = RulesTableToHtml(tree, style_map)
    /\ pc' = "done"
    /\ UNCHANGED << prog, segVars, inVars, mainVars, splitVars >>

SpellTable ==
    /\ prog = "spell_table" /\ pc = "call"
    /\ result' = ConvertTableToHtml(tree, style_map)
    /\ pc' = "done"
    /\ UNCHANGED << prog, segVars, inVars, mainVars, splitVars >>

TableProgs == { "fieldguide_table", "rules_table", "spell_table" }

InitTable ==
    /\ prog \in TableProgs /\ pc = "call"
    /\ tree \in Tables
    /\ style_map \in StyleTables
    /\ input = None
    /\ result = None
    /\ IdleSeg
    /\ IdleMain
    /\ IdleSplit

NextTable == FgTable \/ RulesTable \/ SpellTable

SpecTable == InitTable /\ [][NextTable]_vars

(***************************************************************************)
(* Pruning of the empty elements of a tree, before it is segmented.        *)
(***************************************************************************)
PruneLeaves == { TextNode("x") }

PruneAttrs ==
    { EmptyDict,
      "text:style-name" :> "S",
      "xml:id" :> "i",
      ("text:style-name" :> "S") @@ ("xml:id" :> "i") }

\* child.attributes.keys() == ['text:style-name']: a view of the keys of a dict
\* and a list are never equal
KeysEqualList(attrs, list) == FALSE

\* child.attributes.keys() == set(["text:style-name"])
KeysEqualSet(attrs, set) == DOMAIN attrs = set

\* MonsterExtractor._prune_empty_elements, as the children it leaves to a node
RECURSIVE MonsterPruneEmptyElements(_)
MonsterPruneEmptyElements(kids) ==
    IF kids = << >> THEN << >>
    ELSE LET child == Head(kids)
             rest == MonsterPruneEmptyElements(Tail(kids))
         IN  IF child.kind # "elem" THEN << child >> \o rest
             ELSE LET pruned == MonsterPruneEmptyElements(child.kids)
                  IN  IF /\ pruned = << >>
                         /\ \/ DOMAIN child.attrs = {}
                            \/ /\ Cardinality(DOMAIN child.attrs) = 1
                               /\ KeysEqualList(child.attrs, << "text:style-name" >>)
                      THEN rest
                      ELSE << Element(child.tag, child.attrs, pruned) >> \o rest

\* xml_utils.prune_empty_elements, as the children it leaves to a node
RECURSIVE PruneEmptyElements(_)
PruneEmptyElements(kids) ==
    IF kids = << >> THEN << >>
    ELSE LET child == Head(kids)
             rest == PruneEmptyElements(Tail(kids))
         IN  IF child.kind # "elem" THEN << child >> \o rest
             ELSE LET pruned == PruneEmptyElements(child.kids)
                  IN  IF /\ pruned = << >>
                         /\ \/ Cardinality(DOMAIN child.attrs) = 0
                            \/ KeysEqualSet(child.attrs, { "text:style-name" })
                      THEN rest
                      ELSE << Element(child.tag, child.attrs, pruned) >> \o rest

\* one call of each pruning on the node of the run
MonsterPrune ==
    /\ prog = "fieldguide_prune" /\ pc = "call"
    /\ result' = Element(tree.tag, tree.attrs, MonsterPruneEmptyElements(tree.kids))
    /\ pc' = "done"
    /\ UNCHANGED << prog, segVars, inVars, mainVars, splitVars >>

XmlPrune ==
    /\ prog = "spell_prune" /\ pc = "call"
    /\ result' = Element(tree.tag, tree.attrs, PruneEmptyElements(tree.kids))
    /\ pc' = "done"
    /\ UNCHANGED << prog, segVars, inVars, mainVars, splitVars >>

PruneProgs == { "fieldguide_prune", "spell_prune" }

InitPrune ==
    /\ prog \in PruneProgs /\ pc = "call"
    /\ tree \in { t \in TreesUpTo(PruneLeaves, PruneAttrs, MaxTreeNodes) : t.kind = "elem" }
    /\ style_map = EmptyDict
    /\ input = None
    /\ result = None
    /\ IdleSeg
    /\ IdleMain
    /\ IdleSplit

NextPrune == MonsterPrune \/ XmlPrune

SpecPrune == InitPrune /\ [][NextPrune]_vars

(***************************************************************************)
(* The display name of a heading, before any post-processing.              *)
(***************************************************************************)
\* The text nodes a heading may hold, and the attributes of its elements.
NameLeaves == { TextNode("Bee"), TextNode(" Giant "), TextNode(" ") }

NameAttrs == { EmptyDict }

\* _get_recursive_text_list flattened by _concat_text_parts: the text nodes in
\* document order, each stripped, the empty ones left out
RECURSIVE GetRecursiveTextList(_)
GetRecursiveTextList(node) ==
    IF node.kind = "text"
    THEN IF Strip(node.data) # "" THEN << Strip(node.data) >> ELSE << >>
    ELSE IF node.kids = << >> THEN << >>
    ELSE GetRecursiveTextList(Element(node.tag, node.attrs, SubSeq(node.kids, 1, Len(node.kids) - 1)))
         \o GetRecursiveTextList(node.kids[Len(node.kids)])

\* the text of _extract_monster_name_from_header of the field guide, before
\* _postprocess_title
FgHeaderText(header_element) == Strip(Join(GetRecursiveTextList(header_element), ""))

\* RulesMonsterExtractor._get_text_content
RECURSIVE GetTextContent(_)
GetTextContent(element) ==
    IF element.kind = "text" THEN element.data
    ELSE IF element.kids = << >> THEN ""
    ELSE GetTextContent(Element(element.tag, element.attrs, SubSeq(element.kids, 1, Len(element.kids) - 1)))
         \o GetTextContent(element.kids[Len(element.kids)])

\* the text of RulesMonsterExtractor._extract_monster_name_from_header
RulesHeaderText(header_element) == Strip(GetTextContent(header_element))

\* one flattening of the heading of the run, by each extractor
FgName ==
    /\ prog = "fieldguide_name" /\ pc = "call"
    /\ result' = FgHeaderText(tree)
    /\ pc' = "done"
    /\ UNCHANGED << prog, segVars, inVars, mainVars, splitVars >>

RulesName ==
    /\ prog = "rules_name" /\ pc = "call"
    /\ result' = RulesHeaderText(tree)
    /\ pc' = "done"
    /\ UNCHANGED << prog, segVars, inVars, mainVars, splitVars >>

NameProgs == { "fieldguide_name", "rules_name" }

InitName ==
    /\ prog \in NameProgs /\ pc = "call"
    /\ tree \in { t \in TreesUpTo(NameLeaves, NameAttrs, MaxTreeNodes) : t.kind = "elem" }
    /\ style_map = EmptyDict
    /\ input = None
    /\ result = None
    /\ IdleSeg
    /\ IdleMain
    /\ IdleSplit

NextName == FgName \/ RulesName

SpecName == InitName /\ [][NextName]_vars

(***************************************************************************)
(* The post-processing of a title.                                         *)
(***************************************************************************)
\* longest title given to _postprocess_title
MaxTitleLen == 4

\* The characters of a title.
TitleChars == { "a", ",", "(", " " }

\* the strings of exactly n characters of a set
RECURSIVE StringsOfLen(_, _)
StringsOfLen(chars, n) ==
    IF n = 0 THEN { "" }
    ELSE { c \o s : c \in chars, s \in StringsOfLen(chars, n - 1) }

\* The texts _extract_monster_name_from_header passes on: stripped, not empty.
Titles ==
    { t \in UNION { StringsOfLen(TitleChars, n) : n \in 1..MaxTitleLen } : Strip(t) = t }

\* one call of _postprocess_title on the title of the run
Postprocess ==
    /\ prog = "postprocess_title" /\ pc = "call"
    /\ result' = PostprocessTitle(input)
    /\ pc' = "done"
    /\ UNCHANGED << prog, segVars, inVars, mainVars, splitVars >>

InitTitle ==
    /\ prog = "postprocess_title" /\ pc = "call"
    /\ input \in Titles
    /\ tree = None /\ style_map = EmptyDict
    /\ result = None
    /\ IdleSeg
    /\ IdleMain
    /\ IdleSplit

SpecTitle == InitTitle /\ [][Postprocess]_vars

(***************************************************************************)
(* The splitting of the entries that hold several monsters                 *)
(* (split_monsters.py).  input is [data, skip_families]: data the entries  *)
(* of the input JSON in their order, each [name, data], the names distinct.*)
(***************************************************************************)
\* most entries of an input map
MaxEntities == 2

\* str(n)
RECURSIVE ToStr(_)
ToStr(n) ==
    IF n < 10 THEN CharAt(Digits, n + 1)
    ELSE ToStr(n \div 10) \o CharAt(Digits, (n % 10) + 1)

\* STATS_ATTRIBUTES
StatsAttributes ==
    { "armor class:", "hit dice:", "no. of attacks:", "damage:", "movement:",
      "no. appearing:", "save as:", "morale:", "treasure type:", "xp:", "attacks:",
      "treasure:" }

\* re.sub(r"<[^>]+>", "", text)
RECURSIVE RemoveTags(_)
RemoveTags(text) ==
    LET i == Find(text, "<")
        rest == SubSeq(text, i + 1, Len(text))
        j == Find(rest, ">")
    IN  IF i = 0 \/ j = 0 THEN text
        ELSE IF j = 1 THEN SubSeq(text, 1, i + 1) \o RemoveTags(SubSeq(rest, 2, Len(rest)))
        ELSE SubSeq(text, 1, i - 1) \o RemoveTags(SubSeq(rest, j + 1, Len(rest)))

\* str.split(): the words between the runs of whitespace
RECURSIVE Words(_)
Words(s) ==
    LET t == LStrip(s)
        spaces == { i \in 1..Len(t) : IsSpace(CharAt(t, i)) }
        n == IF spaces = {} THEN Len(t)
             ELSE (CHOOSE i \in spaces : \A k \in spaces : i <= k) - 1
    IN  IF t = "" THEN << >>
        ELSE << SubSeq(t, 1, n) >> \o Words(SubSeq(t, n + 1, Len(t)))

\* MonsterPostProcessor._clean_text
CleanText(text) ==
    IF text = "" THEN "" ELSE Strip(Join(Words(RemoveTags(text)), " "))

\* MonsterPostProcessor._clean_monster_name
CleanMonsterName(name) == Strip(Replace(Replace(CleanText(name), "*", ""), "**", ""))

\* the score _find_stats_table gives a table: its rows whose first cell holds a
\* stats attribute
TableScore(table) ==
    Cardinality({ r \in 1..Len(table.rows) :
                    /\ Len(table.rows[r]) > 0
                    /\ \E attr \in StatsAttributes :
                           Contains(Lower(CleanText(table.rows[r][1])), attr) })

\* _find_stats_table that keeps the last of the tables of the best score
FindStatsTableLast(tables) ==
    LET best == { i \in 1..Len(tables) :
                    /\ TableScore(tables[i]) > 0
                    /\ \A j \in 1..Len(tables) : TableScore(tables[j]) <= TableScore(tables[i]) }
    IN  IF best = {} THEN 0 ELSE CHOOSE i \in best : \A j \in best : j <= i

\* _find_stats_table, as the index of the table in tables, 0 for None: the first
\* table of the highest score, when that score is above 0
FindStatsTable(tables) ==
    LET best == { i \in 1..Len(tables) :
                    /\ TableScore(tables[i]) > 0
                    /\ \A j \in 1..Len(tables) : TableScore(tables[j]) <= TableScore(tables[i]) }
    IN  IF best = {} THEN 0 ELSE CHOOSE i \in best : \A j \in best : i <= j

\* _is_multi_monster_table
IsMultiMonsterTable(table) == table.rows # << >> /\ Len(table.rows[1]) > 2

\* _extract_column_headers
ExtractColumnHeaders(header_row) ==
    [ i \in 1..(Len(header_row) - 1) |-> CleanText(header_row[i + 1]) ]

\* monster_value of _create_individual_stats_table before the shared value is
\* looked for: row[column_index] stripped, None when the row is too short
ColumnValue(row, column_index) ==
    IF Len(row) > column_index THEN Strip(row[column_index + 1]) ELSE None

\* the row has no value for the column and is not a row of two columns
ValueMissing(row, column_index) ==
    ColumnValue(row, column_index) \in { None, "" } /\ Len(row) # 2

\* MonsterValue without the shared value of the rows of two columns
MonsterValueNotShared(row, column_index) == ColumnValue(row, column_index)

\* monster_value of _create_individual_stats_table
MonsterValue(row, column_index) ==
    IF ColumnValue(row, column_index) \in { None, "" } /\ Len(row) = 2
    THEN Strip(row[2])
    ELSE ColumnValue(row, column_index)

\* _create_individual_stats_table: the list of tables it returns
CreateIndividualStatsTable(stats_table, column_index) ==
    LET new_rows == [ r \in 1..(Len(stats_table.rows) - 1) |->
                        << stats_table.rows[r + 1][1],
                           MonsterValue(stats_table.rows[r + 1], column_index) >> ]
    IN  IF new_rows = << >> THEN << >>
        ELSE << [type |-> "table", rows |-> new_rows] >>

\* the errors _create_individual_stats_table logs
MissingValues(stats_table, column_index) ==
    Cardinality({ r \in 2..Len(stats_table.rows) :
                    ValueMissing(stats_table.rows[r], column_index) })

\* safe_monster_name for the i-th column header, i from 1
SafeMonsterName(original_name, column_header, i) ==
    IF Strip(column_header) # "" THEN original_name \o " " \o Strip(column_header)
    ELSE original_name \o " (" \o ToStr(i) \o ")"

\* final_name: clean_name, or clean_name with the first counter from 2 that
\* gives a key output_monsters does not have
FinalName(clean_name, out) ==
    IF clean_name \notin DOMAIN out THEN clean_name
    ELSE LET key(c) == clean_name \o " (" \o ToStr(c) \o ")"
             counter == CHOOSE c \in 2..(Cardinality(DOMAIN out) + 2) :
                            /\ key(c) \notin DOMAIN out
                            /\ \A d \in 2..(c - 1) : key(d) \in DOMAIN out
         IN  key(counter)

\* new_monster_data for one column
NewMonsterData(data, stats_table, column_index) ==
    [ description_paragraphs |-> data.description_paragraphs,
      tables |-> CreateIndividualStatsTable(stats_table, column_index)
                 \o SelectSeq(data.tables, LAMBDA table : table # stats_table),
      other_elements |-> data.other_elements,
      split |-> TRUE ]

\* _process_single_monster_entry: output_monsters after it
ProcessSingleMonsterEntry(out, monster_name, data) ==
    DictSet(out, monster_name,
            [ description_paragraphs |-> data.description_paragraphs,
              tables |-> data.tables,
              other_elements |-> data.other_elements,
              split |-> FALSE ])

\* the loop of _process_multi_monster_entry from the i-th column header on:
\* output_monsters after it
RECURSIVE ProcessMultiMonsterEntry(_, _, _, _, _)
ProcessMultiMonsterEntry(out, original_name, data, stats_table, i) ==
    LET column_headers == ExtractColumnHeaders(stats_table.rows[1])
        clean_name == CleanMonsterName(SafeMonsterName(original_name, column_headers[i], i))
    IN  IF i > Len(column_headers) THEN out
        ELSE ProcessMultiMonsterEntry(
                 DictSet(out, FinalName(clean_name, out),
                         NewMonsterData(data, stats_table, i)),
                 original_name, data, stats_table, i + 1)

\* the errors logged while an entry is split
RECURSIVE SplitErrors(_, _)
SplitErrors(stats_table, i) ==
    IF i > Len(stats_table.rows[1]) - 1 THEN 0
    ELSE MissingValues(stats_table, i) + SplitErrors(stats_table, i + 1)

\* the body of the loop of process_monsters for one entry
ProcessEntry(monster_name, data) ==
    LET tables == data.tables
        best == FindStatsTable(tables)
    IN  IF tables = << >>
        THEN IF input.skip_families
             THEN UNCHANGED << output_monsters, stats, warnings >>
             ELSE /\ output_monsters' =
                        ProcessSingleMonsterEntry(output_monsters, monster_name, data)
                  /\ stats' = [stats EXCEPT !.no_table_entries = @ + 1]
                  /\ UNCHANGED warnings
        ELSE IF best # 0 /\ IsMultiMonsterTable(tables[best])
        THEN /\ output_monsters' =
                    ProcessMultiMonsterEntry(output_monsters, monster_name, data,
                                             tables[best], 1)
             /\ stats' = [stats EXCEPT !.multi_monster_entries = @ + 1,
                                       !.split_monsters = @ + Len(tables[best].rows[1]) - 1]
             /\ warnings' = warnings + SplitErrors(tables[best], 1)
        ELSE /\ output_monsters' =
                    ProcessSingleMonsterEntry(output_monsters, monster_name, data)
             /\ stats' = [stats EXCEPT !.single_monster_entries = @ + 1]
             /\ UNCHANGED warnings

SplitStep ==
    /\ prog = "split" /\ pc = "loop"
    /\ pos <= Len(input.data)
    /\ ProcessEntry(input.data[pos].name, input.data[pos].data)
    /\ pos' = pos + 1
    /\ UNCHANGED << prog, pc, doc, nsections, monster_names_from_index, monster_data,
                    current_monster, current_monster_content, monster_desc_index,
                    monster_headers, spells, current_spell, found_spells,
                    inVars, result, mainVars >>

\* the end of process_monsters: the total is counted and the map returned
SplitFinish ==
    /\ prog = "split" /\ pc = "loop"
    /\ pos > Len(input.data)
    /\ stats' = [stats EXCEPT !.total_output_monsters = Cardinality(DOMAIN output_monsters)]
    /\ result' = output_monsters
    /\ pc' = "done"
    /\ UNCHANGED << prog, segVars, inVars, mainVars, output_monsters >>

\* a table as the extraction writes it
Table(rows) == [type |-> "table", rows |-> rows, html |-> FgTableDataToHtmlTable(rows)]

\* The tables of the entries: stats of two monsters, stats of two monsters of one
\* name with short rows, stats of one monster, a table without stats label, the
\* stats of three monsters with labels without colon, a header row alone.
TwoMonsters == Table(<< << "", "Cave", "Polar" >>, << "Hit Dice:", "2", "3" >> >>)

SameName ==
    Table(<< << "", "Cave*", "<b>Cave</b>" >>, << "Hit Dice:", "2" >>,
             << "Morale:", "7", "" >>, << "XP:" >> >>)

OneMonster == Table(<< << "Armor Class:", "5" >>, << "Hit Dice:", "1" >> >>)

NoStats == Table(<< << "a", "b", "c" >> >>)

ThreeMonsters ==
    Table(<< << "Stat", "Red", "Blue", "Green" >>, << "Hit Dice", "2", "3", "4" >> >>)

HeaderOnly == Table(<< << "Morale:", "", "Polar" >> >>)

\* The entries: a family of several monsters, one of its monsters as an entry
\* of its own, and an entry with a star in its name.
Entry(n, t) ==
    [ name |-> n,
      data |-> [ description_paragraphs |-> << "<p>" \o n \o "</p>" >>,
                 tables |-> t, other_elements |-> << >> ] ]

Entries ==
    { Entry("Bear", t) :
          t \in { << >>, << TwoMonsters >>, << SameName >>, << OneMonster >>,
                  << NoStats, OneMonster >>, << NoStats, TwoMonsters >>,
                  << ThreeMonsters >>, << HeaderOnly >> } }
    \cup { Entry("Bear Cave", t) : t \in { << >>, << OneMonster >>, << NoStats, OneMonster >> } }
    \cup { Entry("Ant*", t) : t \in { << OneMonster >>, << TwoMonsters >> } }

\* the lists of n entries of distinct names
RECURSIVE EntryLists(_)
EntryLists(n) ==
    IF n = 0 THEN { << >> }
    ELSE UNION { { Append(l, e) :
                       e \in { x \in Entries : \A i \in 1..(n - 1) : l[i].name # x.name } } :
                 l \in EntryLists(n - 1) }

InitSplit ==
    /\ prog = "split" /\ pc = "loop"
    /\ input \in { [data |-> d, skip_families |-> b] :
                     d \in UNION { EntryLists(n) : n \in 0..MaxEntities }, b \in BOOLEAN }
    /\ pos = 1
    /\ output_monsters = EmptyDict
    /\ stats = [ original_entries |-> Len(input.data), multi_monster_entries |-> 0,
                 single_monster_entries |-> 0, no_table_entries |-> 0,
                 split_monsters |-> 0, total_output_monsters |-> 0 ]
    /\ doc = << >> /\ nsections = 0
    /\ monster_names_from_index = {}
    /\ monster_data = EmptyDict /\ current_monster = None
    /\ current_monster_content = << >>
    /\ monster_desc_index = 0 /\ monster_headers = << >>
    /\ spells = << >> /\ current_spell = EmptyDict /\ found_spells = FALSE
    /\ warnings = 0
    /\ tree = None /\ style_map = EmptyDict /\ result = None
    /\ IdleMain

NextSplit == SplitStep \/ SplitFinish

SpecSplit == InitSplit /\ [][NextSplit]_vars

(***************************************************************************)
(* The stats of a monster (postprocess_tables.py).                         *)
(***************************************************************************)
\* the keys of EXPECTED_STATS in their order
ExpectedKeys ==
    << "armorClass", "hitDice", "numberOfAttacks", "damage", "movement",
       "numberAppearing", "saveClass", "morale", "treasureType", "xp" >>

\* EXPECTED_STATS
ExpectedStats ==
    [ armorClass |-> << "Armor Class:" >>,
      hitDice |-> << "Hit Dice:" >>,
      numberOfAttacks |-> << "No. of Attacks:", "Number of Attacks:", "Attacks:",
                             "No of Attacks:", "No. Attacks:" >>,
      damage |-> << "Damage:", "Dam:", "Damage" >>,
      movement |-> << "Movement:", "Move:", "Movement" >>,
      numberAppearing |-> << "No. Appearing:", "Number Appearing:", "No Appearing:",
                             "Appearing:", "No. App:" >>,
      saveClass |-> << "Save As:", "Save as:", "Saves As:", "Saves as:", "Save" >>,
      morale |-> << "Morale:", "Mor:", "Morale" >>,
      treasureType |-> << "Treasure Type:", "Treasure:", "TT:", "Treasure Type" >>,
      xp |-> << "XP:", "Experience:", "Exp:", "XP" >> ]

\* key in variations
InVariations(key, variations) == \E i \in 1..Len(variations) : variations[i] = key

\* str.capitalize()
Capitalize(word) ==
    IF word = "" THEN "" ELSE Upper(CharAt(word, 1)) \o Lower(SubSeq(word, 2, Len(word)))

\* the words from the i-th on, capitalized and joined
RECURSIVE CapitalizedFrom(_, _)
CapitalizedFrom(words, i) ==
    IF i > Len(words) THEN "" ELSE Capitalize(words[i]) \o CapitalizedFrom(words, i + 1)

\* normalize_key for a key that is no variation: camelCase
CamelCase(key) ==
    LET words == Words(Replace(Replace(key, ":", ""), ".", ""))
    IN  IF words = << >> THEN Lower(key)
        ELSE Lower(words[1]) \o CapitalizedFrom(words, 2)

\* normalize_key for a key taken as it is, not stripped
NormalizeKeyUnstripped(key) ==
    LET found == { k \in 1..Len(ExpectedKeys) : InVariations(key, ExpectedStats[ExpectedKeys[k]]) }
    IN  IF found # {} THEN ExpectedKeys[CHOOSE k \in found : \A j \in found : k <= j]
        ELSE CamelCase(key)

\* normalize_key
NormalizeKey(key) ==
    LET stripped == Strip(key)
        found == { k \in 1..Len(ExpectedKeys) :
                     InVariations(stripped, ExpectedStats[ExpectedKeys[k]]) }
    IN  IF found # {} THEN ExpectedKeys[CHOOSE k \in found : \A j \in found : k <= j]
        ELSE CamelCase(stripped)

\* most blanks before and after a label
MaxPad == 1

\* runs of at most n blanks
Pads(n) == { SubSeq("          ", 1, k) : k \in 0..n }

\* The labels of the first cells: the variations and labels that are none.
LabelTexts ==
    UNION { { ExpectedStats[k][i] : i \in 1..Len(ExpectedStats[k]) } : k \in DOMAIN ExpectedStats }
    \cup { "save as:", "No. of attacks", "Special Attacks:", ":", "" }

Labels == { a \o t \o b : a \in Pads(MaxPad), t \in LabelTexts, b \in Pads(MaxPad) }

\* one call of normalize_key on the label of the run
Normalize ==
    /\ prog = "normalize_key" /\ pc = "call"
    /\ result' = NormalizeKey(input)
    /\ pc' = "done"
    /\ UNCHANGED << prog, segVars, inVars, mainVars, splitVars >>

InitLabel ==
    /\ prog = "normalize_key" /\ pc = "call"
    /\ input \in Labels
    /\ tree = None /\ style_map = EmptyDict
    /\ result = None
    /\ IdleSeg
    /\ IdleMain
    /\ IdleSplit

SpecLabel == InitLabel /\ [][Normalize]_vars

\* the index after the run of digits of s that starts at i
RECURSIVE DigitsEnd(_, _)
DigitsEnd(s, i) ==
    IF i <= Len(s) /\ IsDigit(CharAt(s, i)) THEN DigitsEnd(s, i + 1) ELSE i

\* r'\(\+(\d+)\)' matches at index i of s
BonusMatchesAt(s, i) ==
    /\ i + 3 <= Len(s)
    /\ SubSeq(s, i, i + 1) = "(+"
    /\ DigitsEnd(s, i + 2) > i + 2
    /\ DigitsEnd(s, i + 2) <= Len(s)
    /\ CharAt(s, DigitsEnd(s, i + 2)) = ")"

\* re.search(r'\(\+(\d+)\)', value): the index of the match, 0 when there is none
BonusSearch(value) ==
    LET hits == { i \in 1..Len(value) : BonusMatchesAt(value, i) }
    IN  IF hits = {} THEN 0 ELSE CHOOSE i \in hits : \A j \in hits : i <= j

\* attack_bonus_match.group(1), None without a match
AttackBonus(value) ==
    LET i == BonusSearch(value)
    IN  IF i = 0 THEN None ELSE SubSeq(value, i + 2, DigitsEnd(value, i + 2) - 1)

\* re.sub(r'\([^)]*\)', '', value): every group from a "(" to the next ")"
RECURSIVE RemoveParentheses(_)
RemoveParentheses(value) ==
    LET i == Find(value, "(")
        rest == SubSeq(value, i + 1, Len(value))
        j == Find(rest, ")")
    IN  IF i = 0 \/ j = 0 THEN value
        ELSE SubSeq(value, 1, i - 1) \o RemoveParentheses(SubSeq(rest, j + 1, Len(rest)))

\* parse_hit_dice: the cleaned dice and the attack bonus
ParseHitDice(value) ==
    IF value = "" THEN [ hitDice |-> value, attackBonus |-> None ]
    ELSE [ hitDice |-> Strip(Replace(RemoveParentheses(value), "*", "")),
           attackBonus |-> AttackBonus(value) ]

\* longest generated Hit Dice value
MaxHitDiceLen == 4

HitDiceChars == { "1", "+", "(", ")", "*", " " }

\* The values of a Hit Dice row: the generated ones and some of the books.
HitDiceValues ==
    UNION { StringsOfLen(HitDiceChars, n) : n \in 0..MaxHitDiceLen }
    \cup { "3+2 (+8)", "2** (+10)", "1 (1d4 hp)", "1d4 hp", "11* (+9)" }

\* one call of parse_hit_dice on the value of the run
ParseHitDiceCall ==
    /\ prog = "parse_hit_dice" /\ pc = "call"
    /\ result' = ParseHitDice(input)
    /\ pc' = "done"
    /\ UNCHANGED << prog, segVars, inVars, mainVars, splitVars >>

InitHitDice ==
    /\ prog = "parse_hit_dice" /\ pc = "call"
    /\ input \in HitDiceValues
    /\ tree = None /\ style_map = EmptyDict
    /\ result = None
    /\ IdleSeg
    /\ IdleMain
    /\ IdleSplit

SpecHitDice == InitHitDice /\ [][ParseHitDiceCall]_vars

\* the index after the run of whitespace of s that starts at i
RECURSIVE SpacesEnd(_, _)
SpacesEnd(s, i) ==
    IF i <= Len(s) /\ IsSpace(CharAt(s, i)) THEN SpacesEnd(s, i + 1) ELSE i

\* parse_save_as: the save class and the save level
ParseSaveAs(value) ==
    LET v == Strip(value)
        colon == Find(v, ":")
        digits == SpacesEnd(v, colon + 1)
        nothing == [ saveClass |-> None, saveLevel |-> None ]
    IN  IF value = "" \/ Contains(Lower(value), "same as hit dice") THEN nothing
        ELSE IF colon > 1 /\ DigitsEnd(v, digits) > digits
        THEN [ saveClass |-> Strip(SubSeq(v, 1, colon - 1)),
               saveLevel |-> SubSeq(v, digits, DigitsEnd(v, digits) - 1) ]
        ELSE IF Contains(Lower(value), "normal man")
        THEN [ saveClass |-> "Normal Man", saveLevel |-> None ]
        ELSE nothing

\* the body of the loop of extract_stats_from_table for one row
StatsOfRow(stats_dict, row) ==
    LET key == NormalizeKey(row[1])
        value == Strip(row[2])
        save == ParseSaveAs(value)
        dice == ParseHitDice(value)
        with_class == IF save.saveClass \notin { None, "" }
                      THEN DictSet(stats_dict, "saveClass", save.saveClass) ELSE stats_dict
        with_dice == DictSet(stats_dict, "hitDice", dice.hitDice)
    IN  IF Len(row) < 2 THEN stats_dict
        ELSE IF key = "saveClass"
        THEN IF save.saveLevel \notin { None, "" }
             THEN DictSet(with_class, "saveLevel", save.saveLevel) ELSE with_class
        ELSE IF key = "hitDice"
        THEN IF dice.attackBonus \notin { None, "" }
             THEN DictSet(with_dice, "attackBonus", dice.attackBonus) ELSE with_dice
        ELSE DictSet(stats_dict, key, value)

\* the loop of extract_stats_from_table over the first n rows
RECURSIVE StatsOfRows(_, _)
StatsOfRows(rows, n) ==
    IF n = 0 THEN EmptyDict ELSE StatsOfRow(StatsOfRows(rows, n - 1), rows[n])

\* extract_stats_from_table
ExtractStatsFromTable(table) ==
    IF "rows" \notin DOMAIN table THEN EmptyDict
    ELSE StatsOfRows(table.rows, Len(table.rows))

\* row[1].strip() of extract_stats_from_table raises: the value is None
StripRaises(table) ==
    /\ "rows" \in DOMAIN table
    /\ \E r \in 1..Len(table.rows) : Len(table.rows[r]) >= 2 /\ table.rows[r][2] = None

\* validate_stats warns: an expected stat is missing
MissingStats(stats_dict) == \E k \in DOMAIN ExpectedStats : k \notin DOMAIN stats_dict

\* monster_data.get(key, default)
Get(data, key, default) == IF key \in DOMAIN data THEN data[key] ELSE default

\* result of process_monster before the tables are looked at
MonsterResult(name, data) ==
    LET base == [ name |-> name,
                  description |-> Get(data, "description_paragraphs", << >>),
                  split |-> Get(data, "split", FALSE) ]
        other_elements == Get(data, "other_elements", << >>)
    IN  IF other_elements # << >> THEN DictSet(base, "otherElements", other_elements)
        ELSE base

\* stats_table of process_monster
StatsTable(tables) == tables[1]

\* process_monster for a monster with tables
ProcessMonster(name, data) ==
    LET tables == Get(data, "tables", << >>)
        updated == ExtractStatsFromTable(StatsTable(tables)) @@ MonsterResult(name, data)
    IN  IF tables = << >> THEN MonsterResult(name, data)
        ELSE IF Len(tables) > 1 THEN DictSet(updated, "tables", Tail(tables))
        ELSE updated

\* one call of process_monster on the monster of the run
ProcessMonsterCall ==
    /\ prog = "process_monster" /\ pc = "call"
    /\ LET tables == Get(input.data, "tables", << >>)
       IN  IF tables # << >> /\ StripRaises(StatsTable(tables))
           THEN /\ pc' = "raised"
                /\ UNCHANGED << result, warnings >>
           ELSE /\ result' = ProcessMonster(input.name, input.data)
                /\ warnings' =
                       IF tables = << >> \/ MissingStats(ExtractStatsFromTable(StatsTable(tables)))
                       THEN warnings + 1 ELSE warnings
                /\ pc' = "done"
    /\ UNCHANGED << prog, doc, pos, nsections, monster_names_from_index, monster_data,
                    current_monster, current_monster_content, monster_desc_index,
                    monster_headers, spells, current_spell, found_spells,
                    inVars, mainVars, splitVars >>

\* most tables of a generated entry
MaxStatsTables == 2

\* the stats of one monster with an attack bonus, a save and several damages
SaveStats ==
    Table(<< << "Hit Dice:", "3+2* (+8)" >>, << "Save As:", "Fighter: 3" >>,
             << "Morale:", " 7 " >>, << "Damage:", "1d6, 1d4 or by weapon" >> >>)

\* a table of another matter, with a row of one cell and labels that are
\* normalized to keys of the record
Encounters ==
    Table(<< << "Name", "Encounter" >>, << "1" >>, << "Save as:", "Normal Man" >>,
             << "Tables", "2" >> >>)

StatsTables ==
    { TwoMonsters, SameName, OneMonster, NoStats, HeaderOnly, SaveStats, Encounters }

\* the lists of n tables
RECURSIVE TableLists(_)
TableLists(n) ==
    IF n = 0 THEN { << >> }
    ELSE { Append(l, t) : l \in TableLists(n - 1), t \in StatsTables }

\* output_monsters of process_monsters for one entry that is not skipped
SplitOf(entry) ==
    LET tables == entry.data.tables
        best == FindStatsTable(tables)
    IN  IF tables # << >> /\ best # 0 /\ IsMultiMonsterTable(tables[best])
        THEN ProcessMultiMonsterEntry(EmptyDict, entry.name, entry.data, tables[best], 1)
        ELSE ProcessSingleMonsterEntry(EmptyDict, entry.name, entry.data)

\* The monsters of the input file: what the splitting writes for an entry of at
\* most n tables.
Monsters(n) ==
    UNION { { [ name |-> m, data |-> SplitOf(Entry("Bear", t))[m] ] :
                m \in DOMAIN SplitOf(Entry("Bear", t)) } :
            t \in UNION { TableLists(k) : k \in 0..n } }

InitStats ==
    /\ prog = "process_monster" /\ pc = "call"
    /\ input \in Monsters(MaxStatsTables)
    /\ tree = None /\ style_map = EmptyDict
    /\ result = None
    /\ IdleSeg
    /\ IdleMain
    /\ IdleSplit

SpecStats == InitStats /\ [][ProcessMonsterCall]_vars

(***************************************************************************)
(* The stage commands: extract_monsters, split_monsters, postprocess_tables.*)
(* input is the environment of the run: the state of the input file, what  *)
(* it holds, whether the output location can be written, the options;      *)
(* output is the set of the files the run has written.                     *)
(***************************************************************************)
\* what the stage commands leave alone
cliFrame == << prog, doc, nsections, monster_names_from_index, monster_data,
               current_monster, current_monster_content, monster_desc_index,
               monster_headers, spells, current_spell, found_spells, inVars >>

\* the process ends with a status
ExitWith(status) == exit_status' = status /\ pc' = "exited"

\* the map the extraction returns for a document that holds the entries
MapOf(entries) ==
    [ n \in { entries[i].name : i \in 1..Len(entries) } |->
        (CHOOSE e \in { entries[i] : i \in 1..Len(entries) } : e.name = n).data ]

\* output_monsters of process_monsters after the first n entries
RECURSIVE ProcessMonsters(_, _, _)
ProcessMonsters(entries, n, skip_families) ==
    LET out == ProcessMonsters(entries, n - 1, skip_families)
        tables == entries[n].data.tables
        best == FindStatsTable(tables)
    IN  IF n = 0 THEN EmptyDict
        ELSE IF tables = << >>
        THEN IF skip_families THEN out
             ELSE ProcessSingleMonsterEntry(out, entries[n].name, entries[n].data)
        ELSE IF best # 0 /\ IsMultiMonsterTable(tables[best])
        THEN ProcessMultiMonsterEntry(out, entries[n].name, entries[n].data, tables[best], 1)
        ELSE ProcessSingleMonsterEntry(out, entries[n].name, entries[n].data)

\* extract_monsters main: the field guide is looked for
EmCheckInput ==
    /\ prog = "extract_monsters" /\ pc = "main"
    /\ IF input.file = "missing" THEN ExitWith(1)
       ELSE pc' = "extract" /\ UNCHANGED exit_status
    /\ UNCHANGED << cliFrame, pos, warnings, result, output, splitVars >>

\* extract_monsters main: MonsterExtractor(...).extract_monsters(); a file that
\* cannot be read or is no ODT raises in _load_odt, a document of one section
\* in _extract_monster_data, and main returns 1
EmExtract ==
    /\ prog = "extract_monsters" /\ pc = "extract"
    /\ IF input.file # "ok" THEN ExitWith(1) /\ UNCHANGED result
       ELSE result' = MapOf(input.data) /\ pc' = "save" /\ UNCHANGED exit_status
    /\ UNCHANGED << cliFrame, pos, warnings, output, splitVars >>

\* extract_monsters main: the map is written
EmSave ==
    /\ prog = "extract_monsters" /\ pc = "save"
    /\ IF input.writable THEN output' = { result } /\ ExitWith(0)
       ELSE ExitWith(1) /\ UNCHANGED output
    /\ UNCHANGED << cliFrame, pos, warnings, result, splitVars >>

\* split_monsters main: the input is looked for; main returns 1 when it is
\* missing, and the module calls main() without passing its value to exit()
SmCheckInput ==
    /\ prog = "split" /\ pc = "main"
    /\ IF input.file = "missing" THEN ExitWith(0)
       ELSE pc' = "load" /\ UNCHANGED exit_status
    /\ UNCHANGED << cliFrame, pos, warnings, result, output, splitVars >>

\* split_monsters main: load_input; open and json.load raise on a file that
\* cannot be read or parsed, and nothing catches it
SmLoadInput ==
    /\ prog = "split" /\ pc = "load"
    /\ IF input.file # "ok" THEN ExitWith(1) /\ UNCHANGED << pos, stats >>
       ELSE /\ stats' = [stats EXCEPT !.original_entries = Len(input.data)]
            /\ pos' = 1
            /\ pc' = "loop"
            /\ UNCHANGED exit_status
    /\ UNCHANGED << cliFrame, warnings, result, output, output_monsters >>

\* split_monsters main: the output is written after process_monsters
SmSave ==
    /\ prog = "split" /\ pc = "done"
    /\ IF input.writable THEN output' = { result } /\ ExitWith(0)
       ELSE ExitWith(1) /\ UNCHANGED output
    /\ UNCHANGED << cliFrame, pos, warnings, result, splitVars >>

\* postprocess_tables validate_files: the input is there and can be read, the
\* output directory can be written unless --validate-only
PtValidateFiles ==
    /\ prog = "postprocess_tables" /\ pc = "main"
    /\ IF input.file \in { "missing", "unreadable" } THEN ExitWith(1)
       ELSE IF ~input.validate_only /\ ~input.writable THEN ExitWith(1)
       ELSE pc' = "load" /\ UNCHANGED exit_status
    /\ UNCHANGED << cliFrame, pos, warnings, result, output, splitVars >>

\* postprocess_tables main: json.load and the test for the 'monsters' key
PtLoad ==
    /\ prog = "postprocess_tables" /\ pc = "load"
    /\ IF input.file # "ok" THEN ExitWith(1) /\ UNCHANGED warnings
       ELSE IF "monsters" \notin DOMAIN input.data
       THEN ExitWith(1) /\ warnings' = warnings + 1
       ELSE pc' = "process" /\ UNCHANGED << exit_status, warnings >>
    /\ UNCHANGED << cliFrame, pos, result, output, splitVars >>

\* process_monster raises on the monster: a value of its first table is None
ProcessMonsterRaises(data) ==
    Get(data, "tables", << >>) # << >> /\ StripRaises(StatsTable(data.tables))

\* postprocess_tables main: the loop over the monsters, and the end of the run
\* with --validate-only
PtProcess ==
    /\ prog = "postprocess_tables" /\ pc = "process"
    /\ LET monsters == input.data.monsters
       IN  IF \E n \in DOMAIN monsters : ProcessMonsterRaises(monsters[n])
           THEN ExitWith(1) /\ UNCHANGED result
           ELSE /\ result' = [ n \in DOMAIN monsters |-> ProcessMonster(n, monsters[n]) ]
                /\ IF input.validate_only THEN ExitWith(0)
                   ELSE pc' = "write" /\ UNCHANGED exit_status
    /\ UNCHANGED << cliFrame, pos, warnings, output, splitVars >>

\* postprocess_tables main: the structured monsters are written
PtWrite ==
    /\ prog = "postprocess_tables" /\ pc = "write"
    /\ output' = { [ monsters |-> result ] }
    /\ ExitWith(0)
    /\ UNCHANGED << cliFrame, pos, warnings, result, splitVars >>

\* most entries of the file of a stage command
MaxCliEntities == 1

\* the states of the input file of a command
FileStates == { "ok", "missing", "unreadable", "malformed" }

\* The documents and the maps the commands read: the entries of a field guide,
\* the map the extraction writes, the map the splitting writes and the same
\* under a 'monsters' key.
CliEntryLists == UNION { EntryLists(n) : n \in 0..MaxCliEntities }

CliInputs(command) ==
    IF command = "extract_monsters"
    THEN { [ file |-> f, writable |-> w, data |-> d ] :
             f \in FileStates \cup { "one_section" }, w \in BOOLEAN, d \in CliEntryLists }
    ELSE IF command = "split"
    THEN { [ file |-> f, writable |-> w, data |-> d, skip_families |-> s ] :
             f \in FileStates, w \in BOOLEAN, d \in CliEntryLists, s \in BOOLEAN }
    ELSE { [ file |-> f, writable |-> w, validate_only |-> v,
             data |-> IF k THEN [ monsters |-> ProcessMonsters(d, Len(d), FALSE) ]
                      ELSE ProcessMonsters(d, Len(d), FALSE) ] :
             f \in FileStates, w \in BOOLEAN, v \in BOOLEAN, d \in CliEntryLists,
             k \in BOOLEAN }

InitCli ==
    /\ prog \in { "extract_monsters", "split", "postprocess_tables" }
    /\ pc = "main"
    /\ input \in CliInputs(prog)
    /\ tree = None /\ style_map = EmptyDict /\ result = None
    /\ IdleSeg
    /\ exit_status = None /\ output = {}
    /\ output_monsters = EmptyDict
    /\ stats = IF prog = "split"
               THEN [ original_entries |-> 0, multi_monster_entries |-> 0,
                      single_monster_entries |-> 0, no_table_entries |-> 0,
                      split_monsters |-> 0, total_output_monsters |-> 0 ]
               ELSE EmptyDict

NextCli ==
    \/ EmCheckInput \/ EmExtract \/ EmSave
    \/ SmCheckInput \/ SmLoadInput \/ SplitStep \/ SplitFinish \/ SmSave
    \/ PtValidateFiles \/ PtLoad \/ PtProcess \/ PtWrite

SpecCli == InitCli /\ [][NextCli]_vars

(***************************************************************************)
(* The style table (ODTStyleParser.parse_styles, the same in               *)
(* extract_monsters.py and xml_utils.py).                                  *)
(***************************************************************************)
\* element.getElementsByTagName(tag): the descendants of that tag, in document
\* order
RECURSIVE GetElementsByTagName(_, _), ElementsOfList(_, _)
GetElementsByTagName(element, tag) ==
    IF element.kind # "elem" THEN << >> ELSE ElementsOfList(element.kids, tag)

ElementsOfList(kids, tag) ==
    IF kids = << >> THEN << >>
    ELSE (IF Head(kids).kind = "elem" /\ Head(kids).tag = tag THEN << Head(kids) >> ELSE << >>)
         \o GetElementsByTagName(Head(kids), tag) \o ElementsOfList(Tail(kids), tag)

\* properties[key] = value when the condition holds
SetIf(properties, condition, key, value) ==
    IF condition THEN DictSet(properties, key, value) ELSE properties

\* the text properties _extract_style_properties reads from text_props[0]
TextProperties(text_prop) ==
    LET bold == SetIf(EmptyDict,
                      \/ GetAttribute(text_prop, "fo:font-weight") = "bold"
                      \/ GetAttribute(text_prop, "style:font-weight-asian") = "bold",
                      "bold", TRUE)
        italic == SetIf(bold,
                        \/ GetAttribute(text_prop, "fo:font-style") = "italic"
                        \/ GetAttribute(text_prop, "style:font-style-asian") = "italic",
                        "italic", TRUE)
        family == SetIf(italic, GetAttribute(text_prop, "style:font-name") # "",
                        "font_family", GetAttribute(text_prop, "style:font-name"))
    IN  SetIf(family, GetAttribute(text_prop, "fo:font-size") # "",
              "font_size", GetAttribute(text_prop, "fo:font-size"))

\* _extract_style_properties
ExtractStyleProperties(style_element) ==
    LET text_props == GetElementsByTagName(style_element, "style:text-properties")
        para_props == GetElementsByTagName(style_element, "style:paragraph-properties")
        properties == IF text_props # << >> THEN TextProperties(text_props[1]) ELSE EmptyDict
    IN  IF para_props # << >>
        THEN SetIf(properties, GetAttribute(para_props[1], "fo:text-align") # "",
                   "text_align", GetAttribute(para_props[1], "fo:text-align"))
        ELSE properties

\* the body of the loop of _parse_style_section with the properties merged into
\* the entry the style already has
StoreStyleMerged(smap, style) ==
    LET style_name == GetAttribute(style, "style:name")
        style_properties == ExtractStyleProperties(style)
    IN  IF style_name = "" \/ style_properties = EmptyDict THEN smap
        ELSE IF style_name \in DOMAIN smap
        THEN DictSet(smap, style_name, style_properties @@ smap[style_name])
        ELSE DictSet(smap, style_name, style_properties)

\* the body of the loop of _parse_style_section
StoreStyle(smap, style) ==
    LET style_name == GetAttribute(style, "style:name")
        style_properties == ExtractStyleProperties(style)
    IN  IF style_name = "" \/ style_properties = EmptyDict THEN smap
        ELSE DictSet(smap, style_name, style_properties)

\* the loop of _parse_style_section over the first n styles
RECURSIVE StoreStyles(_, _, _)
StoreStyles(smap, styles, n) ==
    IF n = 0 THEN smap ELSE StoreStyle(StoreStyles(smap, styles, n - 1), styles[n])

\* _parse_style_section
ParseStyleSection(smap, style_section) ==
    LET styles == GetElementsByTagName(style_section, "style:style")
    IN  StoreStyles(smap, styles, Len(styles))

\* parse_styles: style_map after it
ParseStyles(smap, dom) ==
    LET auto_styles == GetElementsByTagName(dom, "office:automatic-styles")
        doc_styles == GetElementsByTagName(dom, "office:styles")
        after_auto == IF auto_styles # << >> THEN ParseStyleSection(smap, auto_styles[1])
                      ELSE smap
    IN  IF doc_styles # << >> THEN ParseStyleSection(after_auto, doc_styles[1])
        ELSE after_auto

\* one call of parse_styles on the document of the run
ParseStylesCall ==
    /\ prog = "parse_styles" /\ pc = "call"
    /\ style_map' = ParseStyles(style_map, tree)
    /\ pc' = "done"
    /\ UNCHANGED << prog, segVars, tree, input, result, mainVars, splitVars >>

\* most style definitions of a section
MaxStyles == 1

\* The attributes of the text properties of a style.
TextPropAttrs ==
    { "fo:font-weight" :> "bold",
      ("style:font-weight-asian" :> "bold") @@ ("fo:font-style" :> "italic"),
      "fo:font-weight" :> "normal",
      ("style:font-name" :> "Arial") @@ ("style:font-style-asian" :> "italic") }

\* The children of a style definition: none, its text properties, its
\* paragraph properties.
StyleKids ==
    { << >>, << Element("style:paragraph-properties", "fo:text-align" :> "center", << >>) >> }
    \cup { << Element("style:text-properties", a, << >>) >> : a \in TextPropAttrs }

\* The style definitions: two identifiers, and one definition without name.
StyleElements ==
    { Element("style:style", "style:name" :> n, k) : n \in { "T1", "T2" }, k \in StyleKids }
    \cup { Element("style:style", EmptyDict,
                   << Element("style:text-properties", "fo:font-weight" :> "bold", << >>) >>) }

\* the lists of at most n style definitions
RECURSIVE StyleLists(_)
StyleLists(n) ==
    IF n = 0 THEN { << >> }
    ELSE StyleLists(n - 1)
         \cup { Append(l, s) : l \in { x \in StyleLists(n - 1) : Len(x) = n - 1 },
                               s \in StyleElements }

\* The documents: the document styles, the automatic styles, the body.
StyleDocuments ==
    { Element("office:document-content", EmptyDict,
              << Element("office:styles", EmptyDict, d),
                 Element("office:automatic-styles", EmptyDict, a),
                 Element("office:body", EmptyDict, << >>) >>) :
        d \in StyleLists(MaxStyles), a \in StyleLists(MaxStyles) }

InitStyles ==
    /\ prog = "parse_styles" /\ pc = "call"
    /\ tree \in StyleDocuments
    /\ style_map = EmptyDict
    /\ input = None /\ result = None
    /\ IdleSeg
    /\ IdleMain
    /\ IdleSplit

SpecStyles == InitStyles /\ [][ParseStylesCall]_vars

(***************************************************************************)
(* The choice of the stats table alone (_find_stats_table); result is the  *)
(* index of the table returned in the list, 0 for None.                    *)
(***************************************************************************)
\* one call of _find_stats_table on the tables of the run
FindStatsTableCall ==
    /\ prog = "find_stats_table" /\ pc = "call"
    /\ result' = FindStatsTable(input)
    /\ pc' = "done"
    /\ UNCHANGED << prog, segVars, inVars, mainVars, splitVars >>

InitFind ==
    /\ prog = "find_stats_table" /\ pc = "call"
    /\ input \in UNION { TableLists(n) : n \in 0..MaxStatsTables }
    /\ tree = None /\ style_map = EmptyDict
    /\ result = None
    /\ IdleSeg
    /\ IdleMain
    /\ IdleSplit

SpecFind == InitFind /\ [][FindStatsTableCall]_vars

(***************************************************************************)
(* The sections of the field guide (_extract_monster_index and             *)
(* _extract_monster_data).  tree is the office:text element; a section is  *)
(* named by its path, the indexes of the children from office:text down to *)
(* it; result holds the paths of the sections chosen, << >> for none.      *)
(***************************************************************************)
\* the paths of the elements getElementsByTagName(tag) returns, in its order
RECURSIVE PathsByTagName(_, _, _), PathsOfList(_, _, _, _)
PathsByTagName(element, tag, path) ==
    IF element.kind # "elem" THEN << >> ELSE PathsOfList(element.kids, tag, path, 1)

PathsOfList(kids, tag, path, i) ==
    IF i > Len(kids) THEN << >>
    ELSE (IF kids[i].kind = "elem" /\ kids[i].tag = tag THEN << Append(path, i) >> ELSE << >>)
         \o PathsByTagName(kids[i], tag, Append(path, i))
         \o PathsOfList(kids, tag, path, i + 1)

\* sections of _extract_monster_index and _extract_monster_data
Sections(text_element) == PathsByTagName(text_element, "text:section", << >>)

\* _extract_monster_index: index_section = sections[2], none below 3 sections
IndexSection ==
    /\ prog = "sections" /\ pc = "index"
    /\ result' = [result EXCEPT !.index =
                     IF Len(Sections(tree)) < 3 THEN << >> ELSE Sections(tree)[3]]
    /\ warnings' = IF Len(Sections(tree)) < 3 THEN warnings + 1 ELSE warnings
    /\ pc' = "data"
    /\ UNCHANGED << prog, doc, pos, nsections, monster_names_from_index, monster_data,
                    current_monster, current_monster_content, monster_desc_index,
                    monster_headers, spells, current_spell, found_spells,
                    inVars, mainVars, splitVars >>

\* _extract_monster_data: main_section = sections[1], ValueError below 2
\* sections
MainSection ==
    /\ prog = "sections" /\ pc = "data"
    /\ IF Len(Sections(tree)) < 2 THEN pc' = "error" /\ UNCHANGED result
       ELSE /\ result' = [result EXCEPT !.main = Sections(tree)[2]]
            /\ pc' = "done"
    /\ UNCHANGED << prog, segVars, inVars, mainVars, splitVars >>

\* most sections of a document
MaxSections == 5

\* the sections of n sections in all, themselves included, and the lists of
\* sections of n sections in all
RECURSIVE SectionsOfSize(_), SectionLists(_)
SectionsOfSize(n) ==
    IF n = 0 THEN {}
    ELSE { Element("text:section", EmptyDict, k) : k \in SectionLists(n - 1) }

SectionLists(n) ==
    IF n = 0 THEN { << >> }
    ELSE UNION { { << s >> \o l : s \in SectionsOfSize(k), l \in SectionLists(n - k) } :
                 k \in 1..n }

\* The bodies: sections, nested or not, after a paragraph or not.
Bodies ==
    UNION { { Element("office:text", EmptyDict, p \o l) :
                p \in { << >>, << Element("text:p", EmptyDict, << >>) >> },
                l \in SectionLists(n) } : n \in 0..MaxSections }

InitSections ==
    /\ prog = "sections" /\ pc = "index"
    /\ tree \in Bodies
    /\ style_map = EmptyDict /\ input = None
    /\ result = [ index |-> << >>, main |-> << >> ]
    /\ IdleSeg
    /\ IdleMain
    /\ IdleSplit

NextSections == IndexSection \/ MainSection

SpecSections == InitSections /\ [][NextSections]_vars

(***************************************************************************)
(* The pruning pre-pass of the extractors.  tree is the node whose         *)
(* children are the content nodes; result is the list of the content nodes *)
(* the extractor has classified and rendered.                              *)
(***************************************************************************)
ExtractProgs == { "fieldguide_extract", "rules_extract",
                  "supplement_extract", "necromancer_extract" }

\* _extract_monster_data of the field guide: _prune_empty_elements(main_section)
FgPrunePass ==
    /\ prog = "fieldguide_extract" /\ pc = "start"
    /\ tree' = Element(tree.tag, tree.attrs, MonsterPruneEmptyElements(tree.kids))
    /\ pc' = "classify"
    /\ UNCHANGED << prog, segVars, style_map, input, result, mainVars, splitVars >>

\* main of the two spell extractors: prune_empty_elements(root)
SpellPrunePass ==
    /\ prog \in { "supplement_extract", "necromancer_extract" } /\ pc = "start"
    /\ tree' = Element(tree.tag, tree.attrs, PruneEmptyElements(tree.kids))
    /\ pc' = "classify"
    /\ UNCHANGED << prog, segVars, style_map, input, result, mainVars, splitVars >>

\* _extract_monster_data of the rules book: the content of a monster is taken
\* from the document as loaded, no pruning is called
RulesGetContent ==
    /\ prog = "rules_extract" /\ pc = "start"
    /\ pc' = "classify"
    /\ UNCHANGED << prog, segVars, treeVars, mainVars, splitVars >>

\* the loop over the content nodes, which classifies and renders each
ClassifyContent ==
    /\ prog \in ExtractProgs /\ pc = "classify"
    /\ result' = tree.kids
    /\ pc' = "done"
    /\ UNCHANGED << prog, segVars, inVars, mainVars, splitVars >>

\* most nodes below the node of the content nodes
MaxContentNodes == 2

ContentLists == UNION { ForestsOfSize(PruneLeaves, PruneAttrs, n) : n \in 0..MaxContentNodes }

InitExtract ==
    /\ prog \in ExtractProgs /\ pc = "start"
    /\ tree \in { Element("text:section", EmptyDict, l) : l \in ContentLists }
    /\ style_map = EmptyDict /\ input = None
    /\ result = << >>
    /\ IdleSeg
    /\ IdleMain
    /\ IdleSplit

NextExtract == FgPrunePass \/ SpellPrunePass \/ RulesGetContent \/ ClassifyContent

SpecExtract == InitExtract /\ [][NextExtract]_vars

(***************************************************************************)
(* Claims about the segmenters (SpecSeg).                                  *)
(***************************************************************************)
MaxOf(S) == CHOOSE i \in S : \A j \in S : j <= i

MinOf(S) == CHOOSE i \in S : \A j \in S : i <= j

IsContentElement(n) == n.kind \notin {"h", "text"}

IsElement(n) == n.kind # "text"

\* the name a heading of the scanned document gives, None when it opens no entity
HeadingName(i) ==
    IF prog = "fieldguide"
    THEN ExtractMonsterNameFromHeader(doc[i], monster_names_from_index)
    ELSE RulesNameFromHeader(doc[i])

\* the positions of the headings the segmenter looks at
ScannedHeadings ==
    IF prog = "fieldguide" THEN Headers(doc)
    ELSE { monster_headers[k] : k \in 1..Len(monster_headers) }

\* the entity headings: the scanned headings that give a name
EntityHeadings == { i \in ScannedHeadings : HeadingName(i) # None }

EntityNames == { HeadingName(i) : i \in EntityHeadings }

MonstersDone == prog \in {"fieldguide", "rules"} /\ pc = "done"

\* the content the last entity heading i opens: to the end of the section in the
\* field guide, to the next scanned heading (or the last sibling) in the rules
LastEntityContent(i) ==
    IF prog = "fieldguide"
    THEN SelectSeq(SubSeq(doc, i + 1, Len(doc)), IsContentElement)
    ELSE LET later == { j \in ScannedHeadings : j > i }
             stop == IF later = {} THEN Len(doc) ELSE MinOf(later) - 1
         IN  SelectSeq(SubSeq(doc, i + 1, stop), IsElement)

ContentUntilNextHeading(i) ==
    LET later == { j \in Headers(doc) : j > i }
        stop == IF later = {} THEN Len(doc) ELSE MinOf(later) - 1
    IN  SelectSeq(SubSeq(doc, i + 1, stop), IsContentElement)

\* C2: when the field guide segmenter has returned, the record of every entity is
\* made of exactly the non-heading elements between its heading and the next
\* heading child of the section, whatever the text of that next heading.
C2_ContentUntilNextHeading ==
    (prog = "fieldguide" /\ pc = "done") =>
        \A name \in DOMAIN monster_data :
            LET i == MaxOf({ j \in EntityHeadings : HeadingName(j) = name })
            IN  monster_data[name] = ProcessMonsterContent(ContentUntilNextHeading(i))

\* every HTML string a record holds
RecordTexts(rec) ==
    { rec.description_paragraphs[k] : k \in 1..Len(rec.description_paragraphs) }
    \cup { rec.tables[k].rows[1][1] : k \in 1..Len(rec.tables) }
    \cup { rec.other_elements[k].html : k \in 1..Len(rec.other_elements) }

\* the position of the terminating heading, 0 when the document has none
TerminatorPos ==
    LET headers == HeaderList(doc)
        end == MonstersEndIndex(doc, monster_desc_index)
    IN  IF end > Len(headers) THEN 0 ELSE headers[end]

\* C3: when the rules segmenter has returned, no record holds the terminating
\* heading or a node that follows it in the document.
C3_BoundedByTerminator ==
    (prog = "rules" /\ pc = "done" /\ TerminatorPos # 0) =>
        \A name \in DOMAIN monster_data :
            /\ \A k \in 1..Len(monster_data[name].other_elements) :
                   monster_data[name].other_elements[k].type # "text:h"
            /\ \A j \in TerminatorPos..Len(doc) :
                   /\ doc[j].text \notin RecordTexts(monster_data[name])
                   /\ Strip(doc[j].text) \notin RecordTexts(monster_data[name])

\* C4: when a segmenter has returned, every record it emitted has a non-empty name.
C4_NoNamelessRecord ==
    pc = "done" =>
        IF prog \in {"fieldguide", "rules"}
        THEN \A name \in DOMAIN monster_data : name # None /\ Strip(name) # ""
        ELSE \A k \in 1..Len(spells) :
                 "name" \in DOMAIN spells[k] /\ Strip(spells[k].name) # ""

\* the text of a line
LineText(line) == ConcatTextParts(line.parts)

\* the lines after the section title: the suffix of doc after its first title line
LinesAfterTitle ==
    LET titles == { i \in 1..Len(doc) : IsTitleLine(prog, doc[i]) }
    IN  IF titles = {} THEN << >> ELSE SubSeq(doc, MinOf(titles) + 1, Len(doc))

\* the number of entity openings among lines: an exception-list line opens one, and
\* so does a "Range:" line unless the open entity was opened by an exception-list
\* line and still waits for its "Range:" line (awaiting)
RECURSIVE Openings(_, _)
Openings(lines, awaiting) ==
    IF lines = << >> THEN 0
    ELSE LET text == LineText(Head(lines))
         IN  IF text \in KnownExceptions THEN 1 + Openings(Tail(lines), TRUE)
             ELSE IF Contains(text, "Range:")
             THEN (IF awaiting THEN 0 ELSE 1) + Openings(Tail(lines), FALSE)
             ELSE Openings(Tail(lines), awaiting)

ScanDone == prog \in {"supplement", "necromancer"} /\ pc = "done"

\* C5: when a line scan has returned, the list holds exactly one record per entity
\* opening of the lines after the section title; none gives the empty list.
C5_OneRecordPerOpening ==
    ScanDone => Len(spells) = Openings(LinesAfterTitle, FALSE)

\* the line the scan is at is a descriptive one: after the title, not a title, not
\* an exception-list line, without "Range:" and without "Duration:"
AtDescriptiveLine ==
    /\ prog \in {"supplement", "necromancer"} /\ pc = "scan"
    /\ pos <= Len(doc)
    /\ found_spells
    /\ doc[pos].parts = << >> \/ ~IsTitleLine(prog, doc[pos])
    /\ LineText(doc[pos]) \notin KnownExceptions
    /\ ~Contains(LineText(doc[pos]), "Range:")
    /\ ~Contains(LineText(doc[pos]), "Duration:")

\* C6: the step over a descriptive line appends one item to the description of the
\* open entity, keeps its other fields and keeps the records already pushed.
C6_DescriptionAppended ==
    [][AtDescriptiveLine =>
          /\ pos' = pos + 1
          /\ spells' = spells
          /\ "description" \in DOMAIN current_spell'
          /\ Len(current_spell'.description)
                = 1 + (IF "description" \in DOMAIN current_spell
                       THEN Len(current_spell.description) ELSE 0)
          /\ \A key \in DOMAIN current_spell :
                 /\ key \in DOMAIN current_spell'
                 /\ key # "description" => current_spell'[key] = current_spell[key]
                 /\ key = "description" =>
                        SubSeq(current_spell'.description, 1, Len(current_spell.description))
                            = current_spell.description
          /\ DOMAIN current_spell' = DOMAIN current_spell \cup {"description"}]_vars

(***************************************************************************)
(* Claims about the renderer (SpecRender).                                 *)
(***************************************************************************)
\* the style of the element is absent from the style table, or sets no flag
Unstyled(element, smap) ==
    LET style_name == GetAttribute(element, "text:style-name")
    IN  \/ style_name \notin DOMAIN smap
        \/ "bold" \notin DOMAIN smap[style_name] /\ "italic" \notin DOMAIN smap[style_name]

\* the renderings of the children of an element, joined in document order
RECURSIVE JoinedChildren(_, _)
JoinedChildren(kids, smap) ==
    IF kids = << >> THEN ""
    ELSE JoinedChildren(SubSeq(kids, 1, Len(kids) - 1), smap)
         \o ElementToHtml(kids[Len(kids)], smap)

\* C7: the rendering of an element whose style is absent from the style table, or
\* sets neither bold nor italic, is exactly the renderings of its children joined:
\* no tag is added.
C7_UnstyledAddsNoTag ==
    (prog = "render" /\ pc = "done" /\ tree.kind = "elem" /\ Unstyled(tree, style_map))
        => result = JoinedChildren(tree.kids, style_map)

\* C7's case: an element with a style that has no flag, over a styled child and a
\* text, has been rendered.
C7_Witness ==
    /\ prog = "render" /\ pc = "done"
    /\ tree.kind = "elem"
    /\ GetAttribute(tree, "text:style-name") \in DOMAIN style_map
    /\ Unstyled(tree, style_map)
    /\ Len(tree.kids) = 2
    /\ Contains(result, "<strong>")

\* the tags of an HTML string, in order: every "<" up to the next ">"
RECURSIVE TagList(_)
TagList(html) ==
    LET i == Find(html, "<")
        rest == SubSeq(html, i, Len(html))
        j == Find(rest, ">")
    IN  IF i = 0 THEN << >>
        ELSE IF j = 0 THEN << rest >>
        ELSE << SubSeq(rest, 1, j) >> \o TagList(SubSeq(rest, j + 1, Len(rest)))

\* an HTML string without its tags
RECURSIVE TextOutsideTags(_)
TextOutsideTags(html) ==
    LET i == Find(html, "<")
        rest == SubSeq(html, i, Len(html))
        j == Find(rest, ">")
    IN  IF i = 0 THEN html
        ELSE IF j = 0 THEN SubSeq(html, 1, i - 1)
        ELSE SubSeq(html, 1, i - 1) \o TextOutsideTags(SubSeq(rest, j + 1, Len(rest)))

\* the tags are balanced and properly nested: every closing tag closes the last
\* tag still open, and none stays open
RECURSIVE Nested(_, _)
Nested(tags, open) ==
    IF tags = << >> THEN open = << >>
    ELSE LET t == Head(tags)
         IN  IF t \in {"<strong>", "<em>"} THEN Nested(Tail(tags), Append(open, t))
             ELSE /\ open # << >>
                  /\ t = "</" \o SubSeq(open[Len(open)], 2, Len(open[Len(open)]))
                  /\ Nested(Tail(tags), SubSeq(open, 1, Len(open) - 1))

\* the text nodes of a tree, joined in document order
RECURSIVE FlatText(_)
FlatText(node) ==
    IF node.kind = "text" THEN node.data
    ELSE IF node.kids = << >> THEN ""
    ELSE FlatText(Element(node.tag, node.attrs, SubSeq(node.kids, 1, Len(node.kids) - 1)))
         \o FlatText(node.kids[Len(node.kids)])

BoldItalic(element, smap) ==
    LET style_name == GetAttribute(element, "text:style-name")
    IN  /\ style_name \in DOMAIN smap
        /\ "bold" \in DOMAIN smap[style_name] /\ "italic" \in DOMAIN smap[style_name]

\* C8: the tags of a rendering are strong and em tags only, balanced and properly
\* nested; the text between them is the text of the tree in document order; an
\* element that is bold and italic gives <strong><em> ... </em></strong>.
C8_WellFormedHtml ==
    (prog = "render" /\ pc = "done") =>
        /\ LET tags == TagList(result)
           IN  /\ \A k \in 1..Len(tags) : tags[k] \in {"<strong>", "</strong>", "<em>", "</em>"}
               /\ Nested(tags, << >>)
        /\ TextOutsideTags(result) = FlatText(tree)
        /\ (tree.kind = "elem" /\ BoldItalic(tree, style_map)) =>
               result = "<strong><em>" \o JoinedChildren(tree.kids, style_map)
                        \o "</em></strong>"

\* C8's case: a bold and italic element over a styled child and a text has been
\* rendered.
C8_Witness ==
    /\ prog = "render" /\ pc = "done"
    /\ tree.kind = "elem" /\ BoldItalic(tree, style_map)
    /\ Len(tree.kids) = 2
    /\ Len(TagList(result)) >= 6

(***************************************************************************)
(* Claims about the table renderers (SpecTable) and the pruning            *)
(* (SpecPrune).                                                            *)
(***************************************************************************)
\* the rows of a table that have a cell with text after trimming, as the lists of
\* their trimmed cells, in the order of the table
NonEmptyRows(table, smap) ==
    LET cellsOf(r) == [ c \in 1..Len(table.kids[r].kids) |->
                            Strip(ElementToHtml(table.kids[r].kids[c], smap)) ]
        keeps(r) == \E c \in 1..Len(table.kids[r].kids) : cellsOf(r)[c] # ""
        kept == { r \in 1..Len(table.kids) : keeps(r) }
        RECURSIVE Listed(_)
        Listed(rs) == IF rs = {} THEN << >>
                      ELSE Listed(rs \ { MaxOf(rs) }) \o << cellsOf(MaxOf(rs)) >>
    IN  Listed(kept)

\* the rows between the tags of a rendered table, whatever their cell tags
RowsOfHtml(html) ==
    Replace(Replace(Replace(Replace(html, "<th>", "<td>"), "</th>", "</td>"),
                    "<table>", ""), "</table>", "")

\* C9: each of the three table renderers keeps the rows that have a non-empty
\* cell, in order, and drops the others; a table with no such row is absent: the
\* monster renderers give no Table, the spell renderer no table HTML.
C9_EmptyRowPruning ==
    (prog \in TableProgs /\ pc = "done") =>
        LET rows == NonEmptyRows(tree, style_map)
        IN  IF prog = "spell_table"
            THEN IF rows = << >> THEN ~ Contains(result, "<table")
                 ELSE RowsOfHtml(result) = RowsHtml(rows, 1, FALSE)
            ELSE IF rows = << >> THEN result.type = "None"
                 ELSE result.type = "table" /\ result.rows = rows

\* C9 for the two monster renderers alone
C9_MonsterTables ==
    (prog \in TableProgs \ { "spell_table" } /\ pc = "done") =>
        LET rows == NonEmptyRows(tree, style_map)
        IN  IF rows = << >> THEN result = NoTable
            ELSE result.type = "table" /\ result.rows = rows

\* an element without child that has no attribute, or the style attribute alone,
\* is left below the node
RECURSIVE LeavesEmptyElement(_)
LeavesEmptyElement(node) ==
    /\ node.kind = "elem"
    /\ \E c \in 1..Len(node.kids) :
          LET child == node.kids[c]
          IN  /\ child.kind = "elem"
              /\ \/ child.kids = << >> /\ DOMAIN child.attrs \subseteq { "text:style-name" }
                 \/ LeavesEmptyElement(child)

\* C10: after either pruning, no element without child that has no attribute, or
\* the style attribute alone, is left below the pruned node.
C10_NoEmptyElementLeft ==
    (prog \in PruneProgs /\ pc = "done") => ~ LeavesEmptyElement(result)

\* C10 for the pruning of xml_utils alone
C10_XmlPruning ==
    (prog = "spell_prune" /\ pc = "done") => ~ LeavesEmptyElement(result)

(***************************************************************************)
(* Claims about the names of the headings (SpecName, SpecTitle).           *)
(***************************************************************************)
\* C11: the display name of a heading, before post-processing, is the text of
\* its descendant text nodes joined in document order, with no separator and no
\* trimming of the single nodes, trimmed once at both ends.
C11_NameIsFlattenedText ==
    (prog \in NameProgs /\ pc = "done") => result = Strip(FlatText(tree))

\* C11 for the rules-book extractor alone
C11_RulesName ==
    (prog = "rules_name" /\ pc = "done") => result = Strip(FlatText(tree))

\* C12: the post-processing of a trimmed title without two consecutive spaces
\* gives a title with a space before every "(", a space after every ",", and
\* without two consecutive spaces.
C12_TitleSpacing ==
    (prog = "postprocess_title" /\ pc = "done" /\ ~ Contains(input, "  ")) =>
        /\ \A i \in 1..Len(result) :
               CharAt(result, i) = "(" => (i > 1 /\ CharAt(result, i - 1) = " ")
        /\ \A i \in 1..Len(result) :
               CharAt(result, i) = "," => (i < Len(result) /\ CharAt(result, i + 1) = " ")
        /\ ~ Contains(result, "  ")

\* C12 for the titles that have no space next to a "," or a "("
C12_TitleSpacingNoSpaceBefore ==
    (/\ prog = "postprocess_title" /\ pc = "done"
     /\ ~ Contains(input, ", ") /\ ~ Contains(input, " (")
     /\ ~ Contains(input, ",(") /\ ~ Contains(input, ",,") /\ ~ Contains(input, "((")) =>
        /\ \A i \in 1..Len(result) :
               CharAt(result, i) = "(" => (i > 1 /\ CharAt(result, i - 1) = " ")
        /\ \A i \in 1..Len(result) :
               CharAt(result, i) = "," => (i < Len(result) /\ CharAt(result, i + 1) = " ")
        /\ ~ Contains(result, "  ")

\* the headings of the field guide section whose recovered name is title
HeadingsNamed(title) ==
    { i \in Headers(doc) : Strip(doc[i].text) # "" /\ FixedTitle(Strip(doc[i].text)) = title }

\* the headings that have a name other than the section's own title
OtherHeadings ==
    { i \in Headers(doc) : Strip(doc[i].text) # "" } \ HeadingsNamed("Monster Index")

\* what C13 says of a finished field-guide run
MonsterIndexSkipped ==
    /\ "Monster Index" \notin DOMAIN monster_data
    /\ \A i \in OtherHeadings : FixedTitle(Strip(doc[i].text)) \in DOMAIN monster_data
    /\ warnings = (IF nsections < 3 THEN 1 ELSE 0)
                  + Cardinality({ i \in OtherHeadings :
                                    /\ monster_names_from_index # {}
                                    /\ FixedTitle(Strip(doc[i].text)) \notin monster_names_from_index })

\* C13: in the field guide a heading named "Monster Index" gives no record and no
\* warning, with or without a loaded index; every other heading with a name gives
\* a record under that name, in the index or not.
C13_MonsterIndexSkipped ==
    (prog = "fieldguide" /\ pc = "done") => MonsterIndexSkipped

\* C13 for the runs whose index was loaded
C13_WithLoadedIndex ==
    (prog = "fieldguide" /\ pc = "done" /\ monster_names_from_index # {}) => MonsterIndexSkipped

\* C14: a field-guide run on fewer than 2 sections aborts: no map is returned,
\* no output is written, the exit status is 1.  On exactly 2 sections the index
\* extraction warns and gives an empty index, and the extraction goes on without
\* cross-check to its end: no abort, no other warning, the map written, status 0.
C14_SectionCount ==
    prog = "fieldguide" =>
        /\ (nsections < 2 /\ pc \notin {"index", "data"}) =>
               /\ pc = "error" /\ exit_status = 1
               /\ output = None /\ monster_data = EmptyDict
        /\ (nsections = 2 /\ pc # "index") =>
               /\ monster_names_from_index = {}
               /\ warnings = 1
               /\ pc \in {"data", "scan", "done"}
               /\ pc = "done" => (exit_status = 0 /\ output = monster_data)
               /\ pc # "done" => (exit_status = None /\ output = None)

\* C14's case: a run on fewer than 2 sections has aborted.
C14_Witness ==
    /\ prog = "fieldguide" /\ nsections < 2
    /\ pc = "error" /\ exit_status = 1 /\ output = None /\ warnings = 1

(***************************************************************************)
(* Claims about the splitting (SpecSplit).                                 *)
(***************************************************************************)
\* the entry the loop of process_monsters is about to process
AtEntry == prog = "split" /\ pc = "loop" /\ pos <= Len(input.data)

\* the number of rows of a table whose first cell holds a label of the stat
\* vocabulary
LabelMatches(table) ==
    Cardinality({ r \in 1..Len(table.rows) :
                    Len(table.rows[r]) > 0 /\
                    \E attr \in StatsAttributes :
                        Contains(Lower(CleanText(table.rows[r][1])), attr) })

\* the primary stats table of a list of tables with rows: the first of those
\* whose labels match the vocabulary most
PrimaryTable(tables) ==
    LET most == { i \in 1..Len(tables) :
                    \A j \in 1..Len(tables) : LabelMatches(tables[j]) <= LabelMatches(tables[i]) }
    IN  tables[MinOf(most)]

\* the cell of column c of a row, None when the row is shorter
CellAt(row, c) == IF Len(row) >= c THEN row[c] ELSE None

\* the name C15 gives the k-th sub-entity
SubEntityName(original_name, header_row, k) ==
    LET header == Replace(Strip(header_row[k + 1]), "*", "")
    IN  IF header # "" THEN original_name \o " " \o header
        ELSE original_name \o " (" \o ToStr(k) \o ")"

\* what C15 says of the step that processes an entry whose primary stats table
\* is table
SplitIsComplete(original_name, table) ==
    LET N == Len(table.rows[1])
        M == Len(table.rows)
        added == DOMAIN output_monsters' \ DOMAIN output_monsters
    IN  /\ Cardinality(added) = N - 1
        /\ \A k \in 1..(N - 1) :
              LET name == SubEntityName(original_name, table.rows[1], k)
              IN  /\ name \in added
                  /\ M > 1 =>
                       /\ output_monsters'[name].tables # << >>
                       /\ output_monsters'[name].tables[1].rows =
                              [ r \in 1..(M - 1) |->
                                  << table.rows[r + 1][1], CellAt(table.rows[r + 1], k + 1) >> ]

\* C15: an entry whose primary stats table has a first row of N > 2 columns and M
\* rows gives exactly N-1 sub-entities, the k-th named after the header of column
\* k+1 (or numbered when it is blank), with the M-1 rows [label, value of column
\* k+1] as its own table.
C15_SplitCompleteness ==
    [][ (AtEntry /\ input.data[pos].data.tables # << >>
         /\ Len(PrimaryTable(input.data[pos].data.tables).rows[1]) > 2)
        => SplitIsComplete(input.data[pos].name, PrimaryTable(input.data[pos].data.tables))
      ]_vars

\* the stats table the step splits: the one _find_stats_table returns, when it
\* has more than 2 columns
SplitsTable(data) ==
    /\ data.tables # << >>
    /\ FindStatsTable(data.tables) # 0
    /\ IsMultiMonsterTable(data.tables[FindStatsTable(data.tables)])

\* the rows C16 gives the sub-entity of column index c of a table
RowsAsC16Says(table, c, rows) ==
    /\ Len(rows) = Len(table.rows) - 1
    /\ \A r \in 2..Len(table.rows) :
          LET row == table.rows[r]
          IN  /\ rows[r - 1][1] = row[1]
              /\ rows[r - 1][2] = IF Len(row) > c THEN row[c + 1]
                                  ELSE IF Len(row) = 2 THEN row[2]
                                  ELSE None

\* the rows without column index c that are not rows of two columns
RowsWithoutValue(table, c) ==
    { r \in 2..Len(table.rows) : Len(table.rows[r]) <= c /\ Len(table.rows[r]) # 2 }

RECURSIVE SumOver(_, _)
SumOver(f, n) == IF n = 0 THEN 0 ELSE f[n] + SumOver(f, n - 1)

\* C16: the table of the sub-entity of column c has one row per row 2..M, with
\* the label and the value of column c, or the value of column 1 when the row has
\* no column c and exactly two columns, or no value and a logged warning.
C16_MissingValueFallback ==
    [][ (AtEntry /\ SplitsTable(input.data[pos].data)) =>
          LET table == input.data[pos].data.tables[FindStatsTable(input.data[pos].data.tables)]
              added == DOMAIN output_monsters' \ DOMAIN output_monsters
              columns == Len(table.rows[1]) - 1
          IN  /\ Cardinality(added) = columns
              /\ Len(table.rows) > 1 =>
                    \A c \in 1..columns : \E name \in added :
                        /\ output_monsters'[name].tables # << >>
                        /\ RowsAsC16Says(table, c, output_monsters'[name].tables[1].rows)
              /\ warnings' - warnings >=
                    SumOver([ c \in 1..columns |-> Cardinality(RowsWithoutValue(table, c)) ],
                            columns)
      ]_vars

\* C16's case: a split has used the value of column 1 for a row of two columns
\* and has logged a missing value for a row of one.
C16_Witness ==
    /\ prog = "split" /\ pos > 1
    /\ "Bear Cave (2)" \in DOMAIN output_monsters
    /\ output_monsters["Bear Cave (2)"].split
    /\ output_monsters["Bear Cave (2)"].tables # << >>
    /\ output_monsters["Bear Cave (2)"].tables[1].rows =
           << << "Hit Dice:", "2" >>, << "Morale:", "" >>, << "XP:", None >> >>
    /\ warnings > 0

\* the number of records an entry adds to the output
Emitted(entry) ==
    IF entry.data.tables = << >> THEN (IF input.skip_families THEN 0 ELSE 1)
    ELSE IF SplitsTable(entry.data)
    THEN Len(entry.data.tables[FindStatsTable(entry.data.tables)].rows[1]) - 1
    ELSE 1

\* C17: when all entries are processed no record has been overwritten: the map
\* has one key per sub-entity and per kept top-level entry, and every kept
\* top-level entry is there with its data.
C17_NoRecordOverwritten ==
    (prog = "split" /\ pc = "done") =>
        /\ Cardinality(DOMAIN result) =
               SumOver([ i \in 1..Len(input.data) |-> Emitted(input.data[i]) ], Len(input.data))
        /\ \A i \in 1..Len(input.data) :
               (Emitted(input.data[i]) = 1 /\ ~ SplitsTable(input.data[i].data)) =>
                   \E name \in DOMAIN result :
                       /\ ~ result[name].split
                       /\ result[name].description_paragraphs =
                              input.data[i].data.description_paragraphs
                       /\ result[name].tables = input.data[i].data.tables

\* C17 for the sub-entities: the step that splits an entry changes no record the
\* map already has
C17_SplitKeepsRecords ==
    [][ (AtEntry /\ SplitsTable(input.data[pos].data)) =>
          \A name \in DOMAIN output_monsters :
              name \in DOMAIN output_monsters' /\ output_monsters'[name] = output_monsters[name]
      ]_vars

\* an entry is in the map: split, by as many records flagged split as its stats
\* table has monsters; else by a record of its own name that is not flagged
Represented(entry) ==
    IF SplitsTable(entry.data)
    THEN Cardinality({ name \in DOMAIN result :
                         /\ result[name].split
                         /\ result[name].description_paragraphs =
                                entry.data.description_paragraphs })
         = Len(entry.data.tables[FindStatsTable(entry.data.tables)].rows[1]) - 1
    ELSE /\ entry.name \in DOMAIN result
         /\ ~ result[entry.name].split
         /\ result[entry.name].description_paragraphs = entry.data.description_paragraphs

\* C29: with the default options (families are not kept) every entry of the
\* input is in the output, by a record of its own name flagged split = false or,
\* when it was split, by its N-1 sub-entities flagged split = true; and the
\* counters give original entries = multi-entity + single + no-table entries.
C29_ReshaperCoverage ==
    (prog = "split" /\ pc = "done" /\ input.skip_families) =>
        /\ \A i \in 1..Len(input.data) : Represented(input.data[i])
        /\ stats.original_entries =
               stats.multi_monster_entries + stats.single_monster_entries
               + stats.no_table_entries

\* What holds of the counters: the entries counted are the entries with a table
\* and, when families are kept, the entries without table.
C29_CountedEntries ==
    (prog = "split" /\ pc = "done") =>
        /\ stats.multi_monster_entries + stats.single_monster_entries =
               Cardinality({ i \in 1..Len(input.data) : input.data[i].data.tables # << >> })
        /\ stats.no_table_entries =
               IF input.skip_families THEN 0
               ELSE Cardinality({ i \in 1..Len(input.data) :
                                      input.data[i].data.tables = << >> })

(***************************************************************************)
(* Claims about the stats (SpecLabel, SpecHitDice, SpecStats).             *)
(***************************************************************************)
\* C19: for a label that is, once its surrounding whitespace is removed, a
\* variation listed for a key of the synonym table, normalize_key returns that
\* key; and no variation is listed for two keys.
C19_VariantsCollapse ==
    /\ (prog = "normalize_key" /\ pc = "done") =>
           \A key \in DOMAIN ExpectedStats :
               (\E i \in 1..Len(ExpectedStats[key]) : ExpectedStats[key][i] = Strip(input))
                   => result = key
    /\ \A k1, k2 \in DOMAIN ExpectedStats :
           (\E i \in 1..Len(ExpectedStats[k1]), j \in 1..Len(ExpectedStats[k2]) :
                ExpectedStats[k1][i] = ExpectedStats[k2][j]) => k1 = k2

\* C19's case: a variation between blanks has been normalized.
C19_Witness ==
    /\ prog = "normalize_key" /\ pc = "done"
    /\ input = " Attacks: " /\ result = "numberOfAttacks"

\* the value without its first "(+N)" group
WithoutBonus(value) ==
    LET i == BonusSearch(value)
    IN  IF i = 0 THEN value
        ELSE SubSeq(value, 1, i - 1) \o SubSeq(value, DigitsEnd(value, i + 2) + 1, Len(value))

\* C20: the attack bonus of a Hit Dice value is the digits N of its "(+N)"
\* group and is absent without one; the main value is the value without that
\* group and without asterisks, trimmed; "3+2 (+8)" gives "3+2" and "8"; and
\* the main value decomposes into itself with no bonus.
C20_HitDiceDecomposition ==
    (prog = "parse_hit_dice" /\ pc = "done") =>
        /\ result.attackBonus = AttackBonus(input)
        /\ result.hitDice = Strip(Replace(WithoutBonus(input), "*", ""))
        /\ input = "3+2 (+8)" => result = [ hitDice |-> "3+2", attackBonus |-> "8" ]
        /\ ParseHitDice(result.hitDice) = [ hitDice |-> result.hitDice, attackBonus |-> None ]

\* The parts of C20 that hold: the bonus, the example and the second pass; and
\* the main value of a value whose only parentheses are those of one "(+N)".
C20_BonusAndSecondPass ==
    (prog = "parse_hit_dice" /\ pc = "done") =>
        /\ BonusSearch(input) # 0 => result.attackBonus \notin { None, "" }
        /\ BonusSearch(input) = 0 => result.attackBonus = None
        /\ input = "3+2 (+8)" => result = [ hitDice |-> "3+2", attackBonus |-> "8" ]
        /\ ParseHitDice(result.hitDice) = [ hitDice |-> result.hitDice, attackBonus |-> None ]
        /\ (~Contains(WithoutBonus(input), "(") /\ ~Contains(WithoutBonus(input), ")"))
               => result.hitDice = Strip(Replace(WithoutBonus(input), "*", ""))

\* the keys process_monster sets by itself
RecordKeys == { "name", "description", "split", "otherElements", "tables" }

\* the stat keys of a record process_monster returns
StatKeys(record) == [ k \in DOMAIN record \ RecordKeys |-> record[k] ]

\* C18: for a monster with at least one table, split or not, the stat keys of
\* its record are made from the rows of its primary stats table, the one
\* _find_stats_table picks among all its tables.
C18_StatsFromPrimaryTable ==
    (prog = "process_monster" /\ pc = "done" /\ input.data.tables # << >>
     /\ FindStatsTable(input.data.tables) # 0) =>
        StatKeys(result) =
            ExtractStatsFromTable(input.data.tables[FindStatsTable(input.data.tables)])

\* What holds instead: the stat keys are made from the rows of the first table.
C18_StatsFromFirstTable ==
    (prog = "process_monster" /\ pc = "done" /\ input.data.tables # << >>) =>
        StatKeys(result) = ExtractStatsFromTable(input.data.tables[1])

\* the value of the Damage row of a table, None without one
RECURSIVE DamageValue(_, _)
DamageValue(rows, n) ==
    IF n = 0 THEN None
    ELSE IF Len(rows[n]) >= 2 /\ rows[n][2] # None /\ NormalizeKey(rows[n][1]) = "damage"
    THEN Strip(rows[n][2])
    ELSE DamageValue(rows, n - 1)

\* a damage value split on commas and on the word "or", each part trimmed
SplitDamage(value) ==
    LET parts == Split(Replace(value, " or ", ","), ",")
    IN  [ i \in 1..Len(parts) |-> Strip(parts[i]) ]

\* C21: when the stats table of a monster has a "Damage" or "Dam" row, the
\* damage field of its record is the sequence of the parts of the value split
\* on commas and on the word "or", each trimmed; "1d6, 1d4 or by weapon" gives
\* "1d6", "1d4", "by weapon".
C21_DamageSplitting ==
    (prog = "process_monster" /\ pc = "done" /\ input.data.tables # << >>
     /\ DamageValue(input.data.tables[1].rows, Len(input.data.tables[1].rows)) # None) =>
        /\ "damage" \in DOMAIN result
        /\ result.damage \notin STRING
        /\ result.damage =
               SplitDamage(DamageValue(input.data.tables[1].rows,
                                       Len(input.data.tables[1].rows)))

\* What holds instead: the damage field is the value of the row, trimmed, in
\* one string.
C21_DamageKeptWhole ==
    (prog = "process_monster" /\ pc = "done" /\ input.data.tables # << >>
     /\ DamageValue(input.data.tables[1].rows, Len(input.data.tables[1].rows)) # None) =>
        /\ "damage" \in DOMAIN result
        /\ result.damage \in STRING
        /\ result.damage = DamageValue(input.data.tables[1].rows,
                                       Len(input.data.tables[1].rows))

\* the stats process_monster reads for the monster of the run
StatsRead == ExtractStatsFromTable(StatsTable(Get(input.data, "tables", << >>)))

\* C30: the record process_monster makes has the name of the entity, its
\* description paragraphs and its split flag, whatever the labels of the stats
\* table are, and no stat is overwritten by the tables field of the record.
C30_IdentityKept ==
    (prog = "process_monster" /\ pc = "done") =>
        /\ result.name = input.name
        /\ result.description = Get(input.data, "description_paragraphs", << >>)
        /\ result.split = Get(input.data, "split", FALSE)
        /\ Get(input.data, "tables", << >>) # << >> =>
               \A key \in DOMAIN StatsRead : result[key] = StatsRead[key]

\* What holds instead: the three fields are those of the entity when no label of
\* the stats table is normalized to "name", "description" or "split".
C30_IdentityKeptByOtherLabels ==
    (/\ prog = "process_monster" /\ pc = "done"
     /\ Get(input.data, "tables", << >>) # << >>
     /\ DOMAIN StatsRead \cap { "name", "description", "split" } = {}) =>
        /\ result.name = input.name
        /\ result.description = Get(input.data, "description_paragraphs", << >>)
        /\ result.split = Get(input.data, "split", FALSE)

(***************************************************************************)
(* Claims about the stage commands (SpecCli).                              *)
(***************************************************************************)
\* the run of a stage command has ended
Exited == prog \in { "extract_monsters", "split", "postprocess_tables" } /\ pc = "exited"

\* C22: every stage command ends with status 0 when it completes its run (its
\* output is written), and with status 1 when its input file is missing, when
\* its input is malformed, and when a required top-level key is absent.
C22_ExitStatus ==
    Exited =>
        /\ output # {} => exit_status = 0
        /\ input.file \in { "missing", "malformed" } => exit_status = 1
        /\ (prog = "postprocess_tables" /\ input.file = "ok"
            /\ "monsters" \notin DOMAIN input.data) => exit_status = 1

\* C22 holds for extract_monsters and postprocess_tables, and for
\* split_monsters when the input file is there.
C22_ExitStatusButSplitMissing ==
    (Exited /\ ~(prog = "split" /\ input.file = "missing")) =>
        /\ output # {} => exit_status = 0
        /\ input.file \in { "missing", "malformed" } => exit_status = 1
        /\ (prog = "postprocess_tables" /\ input.file = "ok"
            /\ "monsters" \notin DOMAIN input.data) => exit_status = 1

\* C23: the map a stage writes is accepted by the next one: split_monsters
\* runs to its end on the map of the extraction, and postprocess_tables on
\* the map split_monsters wrote.
C23_StageChaining ==
    (Exited /\ input.file = "ok" /\ input.writable) =>
        /\ prog = "split" => (exit_status = 0 /\ output # {})
        /\ (prog = "postprocess_tables" /\ "monsters" \notin DOMAIN input.data
            /\ ~input.validate_only)
               => (exit_status = 0 /\ output # {})

\* The first link of C23 holds: split_monsters accepts the map of the
\* extraction.
C23_SplitAcceptsExtraction ==
    (Exited /\ prog = "split" /\ input.file = "ok" /\ input.writable) =>
        (exit_status = 0 /\ output # {})

\* the input file is missing or cannot be read, or the output location cannot
\* be written and the run is one that writes
FailedIO ==
    \/ input.file \in { "missing", "unreadable" }
    \/ ~input.writable /\ ~(prog = "postprocess_tables" /\ input.validate_only)

\* the positions of a command where its extraction or transformation runs or
\* is over
WorkPositions == { "save", "loop", "done", "process", "write" }

\* C24: in every stage command a missing or unreadable input file and an
\* output location that cannot be written end the run with a status that is
\* not 0, before any step of extraction or transformation.
C24_FailFast ==
    (prog \in { "extract_monsters", "split", "postprocess_tables" } /\ FailedIO) =>
        /\ pc \notin WorkPositions
        /\ pc = "exited" => exit_status # 0

\* C24 holds for postprocess_tables, whose validate_files runs first.
C24_FailFastTables ==
    (prog = "postprocess_tables" /\ FailedIO) =>
        /\ pc \notin WorkPositions
        /\ pc = "exited" => exit_status = 1

(***************************************************************************)
(* Claims about the style table (SpecStyles).                              *)
(***************************************************************************)
\* the style definitions of the document: the automatic section, then the
\* document section
Definitions == tree.kids[2].kids \o tree.kids[1].kids

\* the value of an attribute of the text or paragraph properties of a definition
StyleAttribute(definition, name) ==
    IF definition.kids = << >> THEN "" ELSE GetAttribute(definition.kids[1], name)

Weighs(definition) ==
    \/ StyleAttribute(definition, "fo:font-weight") = "bold"
    \/ StyleAttribute(definition, "style:font-weight-asian") = "bold"

Slants(definition) ==
    \/ StyleAttribute(definition, "fo:font-style") = "italic"
    \/ StyleAttribute(definition, "style:font-style-asian") = "italic"

\* the definition has a recognized property
Recognized(definition) ==
    \/ Weighs(definition) \/ Slants(definition)
    \/ \E name \in { "style:font-name", "fo:font-size", "fo:text-align" } :
           StyleAttribute(definition, name) # ""

\* the definitions of an identifier that have a recognized property
Defining(id) ==
    { i \in 1..Len(Definitions) :
        GetAttribute(Definitions[i], "style:name") = id /\ Recognized(Definitions[i]) }

\* C25: after parse_styles the style table has an identifier exactly when a
\* definition of it, in the automatic or the document section, has a
\* recognized property; its entry is that of the last such definition, the
\* automatic section first: bold is set exactly when the weight or the CJK
\* weight of that definition is "bold", italic likewise, nothing is merged.
C25_StyleTable ==
    (prog = "parse_styles" /\ pc = "done") =>
        \A id \in { "T1", "T2", "T3" } :
            /\ id \in DOMAIN style_map <=> Defining(id) # {}
            /\ id \in DOMAIN style_map =>
                   LET last == Definitions[CHOOSE i \in Defining(id) : \A j \in Defining(id) : j <= i]
                   IN  /\ PropertyGet(style_map[id], "bold") <=> Weighs(last)
                       /\ PropertyGet(style_map[id], "italic") <=> Slants(last)
                       /\ "font_family" \in DOMAIN style_map[id]
                              <=> StyleAttribute(last, "style:font-name") # ""
                       /\ "text_align" \in DOMAIN style_map[id]
                              <=> StyleAttribute(last, "fo:text-align") # ""

\* C25's case: an identifier defined bold in the automatic section and italic
\* in the document section has the entry of the document section.
C25_Witness ==
    /\ prog = "parse_styles" /\ pc = "done"
    /\ Defining("T1") = { 1, 2 }
    /\ Weighs(Definitions[1]) /\ ~Weighs(Definitions[2])
    /\ style_map["T1"] = [italic |-> TRUE, font_family |-> "Arial"]

(***************************************************************************)
(* Claims about the choice of the stats table (SpecFind).                  *)
(***************************************************************************)
\* the table of index i has the most matching labels of the list, and more
\* than every table before it
FirstOfTheBest(tables, i) ==
    /\ \A j \in 1..Len(tables) : LabelMatches(tables[j]) <= LabelMatches(tables[i])
    /\ \A j \in 1..(i - 1) : LabelMatches(tables[j]) < LabelMatches(tables[i])

\* C26: _find_stats_table returns the table with the most rows whose first
\* cell matches the stat vocabulary, the earliest of those of the same number;
\* and it finds one for every entity with a table that has rows.
C26_PrimaryTableAlwaysFound ==
    (prog = "find_stats_table" /\ pc = "done"
     /\ \E i \in 1..Len(input) : input[i].rows # << >>) =>
        (result # 0 /\ FirstOfTheBest(input, result))

\* C26 as amended: a table is returned exactly when a table of the list has a
\* row whose first cell matches the stat vocabulary, and it is the earliest of
\* the tables with the most such rows.
C26_PrimaryTableWhenLabelsMatch ==
    (prog = "find_stats_table" /\ pc = "done") =>
        /\ result # 0 <=> \E i \in 1..Len(input) : LabelMatches(input[i]) > 0
        /\ result # 0 => FirstOfTheBest(input, result)

\* C26's case: of two tables with the same number of matching rows the first
\* is returned.
C26_Witness ==
    /\ prog = "find_stats_table" /\ pc = "done"
    /\ Len(input) = 2 /\ input[1] # input[2]
    /\ LabelMatches(input[1]) = LabelMatches(input[2]) /\ LabelMatches(input[1]) > 0
    /\ result = 1

(***************************************************************************)
(* Claims about the sections (SpecSections).                               *)
(***************************************************************************)
\* the paths of the top-level sections of the body, in their order
TopLevelSections ==
    LET at == { i \in 1..Len(tree.kids) : tree.kids[i].tag = "text:section" }
    IN  [ k \in 1..Cardinality(at) |->
            << CHOOSE i \in at : Cardinality({ j \in at : j <= i }) = k >> ]

C27_DocumentOrderSections ==
    (prog = "sections" /\ pc = "done") =>
        /\ result.main = Sections(tree)[2]
        /\ (Len(TopLevelSections) >= 2
            /\ \A k \in 1..2 :
                   tree.kids[TopLevelSections[k][1]].kids = << >>) =>
               /\ result.main = TopLevelSections[2]
               /\ result.index =
                      IF Len(TopLevelSections) >= 3 THEN TopLevelSections[3] ELSE << >>

(***************************************************************************)
(* Claims about the pruning pre-pass (SpecExtract).                        *)
(***************************************************************************)
\* a content node classified or rendered is, or holds, an element without child
\* that has no attribute or the style attribute alone
ClassifiesEmptyElement == LeavesEmptyElement(Element("text:section", EmptyDict, result))

\* C28: in every extractor the pruning has run over all the content nodes before
\* any of them is classified or rendered: no element without child that has no
\* attribute, or the style attribute alone, is classified or rendered.
C28_PrunedBeforeClassified ==
    (prog \in ExtractProgs /\ pc = "done") => ~ ClassifiesEmptyElement

\* C28 for the two spell extractors alone
C28_SpellsPrunedBeforeClassified ==
    (prog \in { "supplement_extract", "necromancer_extract" } /\ pc = "done") =>
        ~ ClassifiesEmptyElement

====
